---------------------------- MODULE Spec2Model ----------------------------
(***************************************************************************)
(* Model of the discovery engine in .agentic/tools/discover.py:            *)
(* name normalisation, the greedy feature clustering loop                  *)
(* (cluster_features) and the domain assignment (detect_domains).          *)
(*                                                                         *)
(* Strings the code inspects character by character (component and         *)
(* function names, cluster keys) are sequences of one-character strings.   *)
(* Paths are the sequence of their "/"-separated segments, a trailing "/"  *)
(* being a last, empty segment.                                            *)
(***************************************************************************)
EXTENDS Integers, Sequences, FiniteSets, TLC

VARIABLES
    pc,                    \* position of the run
    name_in,               \* _normalize_name: the raw name
    norm_out,              \* _normalize_name(name_in)
    renorm_out,            \* _normalize_name(norm_out)
    ui_components,         \* cluster_features: argument
    serverless_functions,  \* cluster_features: argument
    items,                 \* cluster_features: the sorted candidate tuples
    pos,                   \* cluster_features: candidates consumed by the loop
    clusters_map,          \* cluster_features: insertion-ordered dict
    clusters,              \* cluster_features: returned list
    root,                  \* detect_domains: what is read below the root
    sub_projects,          \* detect_domains: argument
    feature_clusters,      \* detect_domains: argument
    infra_patterns,        \* detect_domains: argument
    domains,               \* detect_domains: the list being built
    cluster_assigned,      \* detect_domains: the claimed-set
    descriptors,           \* detect_serverless_functions: what rglob("function.json") yields
    aws_config,            \* detect_serverless_functions: the AWS config files at the root
    api_files,             \* detect_serverless_functions: sorted(api_dir.rglob("*"))
    fn_pos,                \* detect_serverless_functions: descriptors consumed
    functions,             \* detect_serverless_functions: the list being built
    visited,               \* paths a traversal has been handed by the file system
    tree,                  \* count_source_files: the directories below the root
    walk_stack,            \* count_source_files: directories os.walk is still to yield
    counts,                \* count_source_files: the census, in insertion order
    total,                 \* count_source_files: source files counted
    project,               \* detect_stack: what is read at the root
    signal_pos,            \* detect_stack: config_signals consumed
    stack,                 \* detect_stack: the dict being built
    settings_files,        \* settings.py: STACK.md, profiles.conf and spec/ on disk
    cache,                 \* settings.py: the module-level _cache
    read_at,               \* settings.py: the files as each get_setting call found them
    results,               \* settings.py: the values the get_setting calls returned
    args,                  \* main: the command line and what --root names
    repo,                  \* generate_report: what the detectors find below the root
    feature_tracking,      \* main: get_setting(...) == "yes"
    report,                \* generate_report: the report dict; the renderer's loaded report
    exit_code,             \* main: the exit status of the process
    output_file,           \* main: the file --output names; the renderer's --report
    warned,                \* render_proposals.main: the version warning was printed
    rendered,              \* render_proposals.main: the proposal files written
    layout,                \* discover_features: the directories it lists below the root
    feat_pos,              \* discover_features: children consumed by the running loop
    features,              \* discover_features: the list being built
    seen_names             \* discover_features: the set of names already used

normVars == <<name_in, norm_out, renorm_out>>
clusterVars == <<ui_components, serverless_functions, items, pos, clusters_map, clusters>>
domainVars == <<root, sub_projects, feature_clusters, infra_patterns, domains, cluster_assigned>>
scanVars == <<descriptors, aws_config, api_files, fn_pos, functions, visited>>
countVars == <<tree, walk_stack, counts, total>>
stackVars == <<project, signal_pos, stack>>
settingsVars == <<settings_files, cache, read_at, results>>
mainVars == <<args, repo, feature_tracking, report, exit_code, output_file>>
renderVars == <<warned, rendered>>
featVars == <<layout, feat_pos, features, seen_names>>
otherVars == <<scanVars, countVars, stackVars, settingsVars, mainVars, renderVars, featVars>>
\* what the actions of one part of the engine leave alone
restScan == <<normVars, clusterVars, domainVars, countVars, stackVars, settingsVars, mainVars, renderVars, featVars>>
restCount == <<normVars, clusterVars, domainVars, scanVars, stackVars, settingsVars, mainVars, renderVars, featVars>>
restStack == <<normVars, clusterVars, domainVars, scanVars, countVars, settingsVars, mainVars, renderVars, featVars>>
restMain == <<normVars, clusterVars, domainVars, scanVars, countVars, stackVars, renderVars, featVars>>
restRender == <<normVars, clusterVars, domainVars, scanVars, countVars, stackVars, featVars>>
restSettings == <<normVars, clusterVars, domainVars, scanVars, countVars, stackVars, mainVars, renderVars, featVars>>
restFeatures == <<normVars, clusterVars, domainVars, scanVars, countVars, stackVars, settingsVars, mainVars, renderVars>>
vars == <<pc, normVars, clusterVars, domainVars, otherVars>>

None == "None"

IdleScan ==
    /\ descriptors = <<>> /\ aws_config = {} /\ api_files = <<>>
    /\ fn_pos = 0 /\ functions = <<>> /\ visited = {}

IdleCount == tree = <<>> /\ walk_stack = <<>> /\ counts = <<>> /\ total = 0

IdleStack == project = None /\ signal_pos = 0 /\ stack = None

IdleSettings ==
    settings_files = None /\ cache = None /\ read_at = <<>> /\ results = <<>>

IdleMain ==
    /\ args = None /\ repo = None /\ feature_tracking = FALSE /\ report = <<>>
    /\ exit_code = -1 /\ output_file = None

IdleRender == warned = FALSE /\ rendered = {}

IdleFeatures == layout = None /\ feat_pos = 0 /\ features = <<>> /\ seen_names = {}

IdleOther == IdleScan /\ IdleCount /\ IdleStack /\ IdleSettings /\ IdleMain /\ IdleRender /\ IdleFeatures
IdleButScan == IdleCount /\ IdleStack /\ IdleSettings /\ IdleMain /\ IdleRender /\ IdleFeatures
IdleButCount == IdleScan /\ IdleStack /\ IdleSettings /\ IdleMain /\ IdleRender /\ IdleFeatures
IdleButStack == IdleScan /\ IdleCount /\ IdleSettings /\ IdleMain /\ IdleRender /\ IdleFeatures
IdleButSettings == IdleScan /\ IdleCount /\ IdleStack /\ IdleMain /\ IdleRender /\ IdleFeatures
IdleButMain == IdleScan /\ IdleCount /\ IdleStack /\ IdleRender /\ IdleFeatures
IdleButRender == IdleScan /\ IdleCount /\ IdleStack /\ IdleFeatures
IdleButFeatures == IdleScan /\ IdleCount /\ IdleStack /\ IdleSettings /\ IdleMain /\ IdleRender

-----------------------------------------------------------------------------
(* Bounds of the model *)

MaxLen == 3
MaxComponents == 2
MaxFunctions == 2
MaxSubProjects == 2
MaxClusters == 2
MaxInfra == 3

-----------------------------------------------------------------------------
(* Characters *)

LowerChars == <<"a","b","c","d","e","f","g","h","i","j","k","l","m",
                "n","o","p","q","r","s","t","u","v","w","x","y","z">>
UpperChars == <<"A","B","C","D","E","F","G","H","I","J","K","L","M",
                "N","O","P","Q","R","S","T","U","V","W","X","Y","Z">>
DigitChars == <<"0","1","2","3","4","5","6","7","8","9">>

IndexIn(c, table) == CHOOSE i \in 1..Len(table) : table[i] = c
IsLower(c) == \E i \in 1..Len(LowerChars) : LowerChars[i] = c
IsUpper(c) == \E i \in 1..Len(UpperChars) : UpperChars[i] = c
IsDigit(c) == \E i \in 1..Len(DigitChars) : DigitChars[i] = c
IsAlnum(c) == IsLower(c) \/ IsUpper(c) \/ IsDigit(c)

\* str.lower() on one character
CharLower(c) == IF IsUpper(c) THEN LowerChars[IndexIn(c, UpperChars)] ELSE c

\* code point order of the characters a normalized name is made of
Ord(c) == IF IsDigit(c) THEN 47 + IndexIn(c, DigitChars)
          ELSE IF IsUpper(c) THEN 64 + IndexIn(c, UpperChars)
          ELSE IF IsLower(c) THEN 96 + IndexIn(c, LowerChars)
          ELSE IF c = "_" THEN 95
          ELSE IF c = "-" THEN 45
          ELSE 32

RECURSIVE Concat(_)
Concat(seqs) == IF seqs = <<>> THEN <<>> ELSE Head(seqs) \o Concat(Tail(seqs))

-----------------------------------------------------------------------------
(* _camel_case_split and _normalize_name *)

\* re.sub(r"([a-z0-9])([A-Z])", r"\1 \2", name)
RECURSIVE CamelSub(_)
CamelSub(s) ==
    IF Len(s) < 2 THEN s
    ELSE IF (IsLower(s[1]) \/ IsDigit(s[1])) /\ IsUpper(s[2])
         THEN <<s[1], " ">> \o CamelSub(Tail(s))
         ELSE <<s[1]>> \o CamelSub(Tail(s))

\* re.sub(r"[^a-zA-Z0-9]", " ", s)
NonAlnumSub(s) == [i \in 1..Len(s) |-> IF IsAlnum(s[i]) THEN s[i] ELSE " "]

\* s.split(): the maximal runs of non-blank characters
RECURSIVE SplitFrom(_, _)
SplitFrom(s, cur) ==
    IF s = <<>> THEN (IF cur = <<>> THEN <<>> ELSE <<cur>>)
    ELSE IF Head(s) = " "
         THEN (IF cur = <<>> THEN <<>> ELSE <<cur>>) \o SplitFrom(Tail(s), <<>>)
         ELSE SplitFrom(Tail(s), Append(cur, Head(s)))
Split(s) == SplitFrom(s, <<>>)

\* a lowering that only touches the first character of the token
TokenLowerFirstOnly(t) ==
    [i \in 1..Len(t) |-> IF i = 1 THEN CharLower(t[i]) ELSE t[i]]
\* str.lower()
StrLower(s) == [i \in 1..Len(s) |-> CharLower(s[i])]
\* t.lower() on a token of the split
TokenLower(t) == StrLower(t)

camel_case_split(name) ==
    LET toks == Split(NonAlnumSub(CamelSub(name)))
    IN  [i \in 1..Len(toks) |-> TokenLower(toks[i])]

normalize_name(name) == Concat(camel_case_split(name))

\* _common_prefix_len
RECURSIVE common_prefix_len(_, _)
common_prefix_len(a, b) ==
    IF a = <<>> \/ b = <<>> THEN 0
    ELSE IF Head(a) # Head(b) THEN 0
    ELSE 1 + common_prefix_len(Tail(a), Tail(b))

-----------------------------------------------------------------------------
(* Specification SpecNorm: _normalize_name applied once and twice *)

NormAlphabet == {"a", "b", "A", "B", "1", "_", "-"}

RawNames == UNION {[1..n -> NormAlphabet] : n \in 0..MaxLen}

IdleCluster ==
    /\ ui_components = <<>> /\ serverless_functions = <<>>
    /\ items = <<>> /\ pos = 0 /\ clusters_map = <<>> /\ clusters = <<>>

IdleDomains ==
    /\ root = None /\ sub_projects = <<>> /\ feature_clusters = <<>>
    /\ infra_patterns = <<>> /\ domains = <<>> /\ cluster_assigned = {}

IdleNorm == name_in = <<>> /\ norm_out = <<>> /\ renorm_out = <<>>

InitNorm ==
    /\ pc = "normalize"
    /\ name_in \in RawNames
    /\ norm_out = <<>> /\ renorm_out = <<>>
    /\ IdleCluster /\ IdleDomains /\ IdleOther

Normalize ==
    /\ pc = "normalize"
    /\ norm_out' = normalize_name(name_in)
    /\ pc' = "renormalize"
    /\ UNCHANGED <<name_in, renorm_out, clusterVars, domainVars, otherVars>>

Renormalize ==
    /\ pc = "renormalize"
    /\ renorm_out' = normalize_name(norm_out)
    /\ pc' = "normalized"
    /\ UNCHANGED <<name_in, norm_out, clusterVars, domainVars, otherVars>>

NextNorm == Normalize \/ Renormalize

SpecNorm == InitNorm /\ [][NextNorm]_vars

\* C6: _normalize_name is idempotent: normalizing the normalized name
\* returns it unchanged, for every input string.
C6_Idempotent == pc = "normalized" => renorm_out = norm_out

\* a mixed-case, punctuated name has been normalized twice
C6_Witness ==
    /\ pc = "normalized"
    /\ norm_out # name_in
    /\ Len(norm_out) >= 2
    /\ \E i \in 1..Len(name_in) : IsUpper(name_in[i])
    /\ \E i \in 1..Len(name_in) : ~IsAlnum(name_in[i])

-----------------------------------------------------------------------------
(* Paths and the candidates handed to cluster_features *)

Range(s) == {s[i] : i \in 1..Len(s)}

\* "/screens/" in path: a segment "screens" that is neither first nor last
HasScreensSegment(path) == \E i \in 2..(Len(path) - 1) : path[i] = "screens"

\* path + "/"
AddSlash(path) == Append(path, "")

RECURSIVE StartsWithChars(_, _)
StartsWithChars(s, prefix) ==
    IF prefix = <<>> THEN TRUE
    ELSE IF s = <<>> THEN FALSE
    ELSE Head(s) = Head(prefix) /\ StartsWithChars(Tail(s), Tail(prefix))

InfraNamePrefixes ==
    { <<"i","n","t","e","r","n","a","l">>, <<"s","y","s","t","e","m">>,
      <<"c","r","o","n">>, <<"s","c","h","e","d","u","l","e","d">> }

\* _serverless_type_hint
serverless_type_hint(name) ==
    LET lower == StrLower(name)
    IN  IF StartsWithChars(lower, <<"a","d","m","i","n">>) THEN "admin"
        ELSE IF StartsWithChars(lower, <<"m","o","b","i","l","e">>) THEN "mobile"
        ELSE IF \E p \in InfraNamePrefixes : StartsWithChars(lower, p)
             THEN "infrastructure"
        ELSE "user-facing"

Cart == <<"C","a","r","t">>
CartApi == <<"c","a","r","t","A","p","i">>
Che == <<"C","h","e">>
Checkout == <<"C","h","e","c","k","o","u","t">>
CheckoutForm == <<"c","h","e","c","k","o","u","t","-","f","o","r","m">>
CheckoutApi == <<"c","h","e","c","k","o","u","t","A","p","i">>
CheLower == <<"c","h","e">>
AdminUsers == <<"a","d","m","i","n","U","s","e","r","s">>
AwsLambdaConfig == <<"_","a","w","s","_","l","a","m","b","d","a","_",
                     "c","o","n","f","i","g">>

\* what detect_ui_components can return, in its detection order
UiPool == <<
    [name |-> Cart,         path |-> <<"src", "components", "Cart">>],
    [name |-> Che,          path |-> <<"src", "components", "Che">>],
    [name |-> Checkout,     path |-> <<"src", "components", "Checkout">>],
    [name |-> CheckoutForm, path |-> <<"src", "components", "checkout-form">>],
    [name |-> Che,          path |-> <<"src", "screens", "Che">>],
    [name |-> Checkout,     path |-> <<"src", "screens", "Checkout">>],
    [name |-> Checkout,     path |-> <<"web", "src", "components", "Checkout">>],
    [name |-> AdminUsers,   path |-> <<"web", "src", "components", "adminUsers">>] >>

\* what the function.json scan of detect_serverless_functions can return
AzurePool == {
    [name |-> CartApi,     type_hint |-> serverless_type_hint(CartApi),
     path |-> <<"cartApi">>],
    [name |-> CheckoutApi, type_hint |-> serverless_type_hint(CheckoutApi),
     path |-> <<"api", "checkoutApi">>],
    [name |-> CheckoutApi, type_hint |-> serverless_type_hint(CheckoutApi),
     path |-> <<"checkoutApi">>],
    [name |-> CheLower,    type_hint |-> serverless_type_hint(CheLower),
     path |-> <<"api", "che">>],
    [name |-> AdminUsers,  type_hint |-> serverless_type_hint(AdminUsers),
     path |-> <<"adminUsers">>] }

\* the entry detect_serverless_functions adds for serverless.yml
AwsEntry == [name |-> AwsLambdaConfig, type_hint |-> "infrastructure",
             path |-> <<"serverless.yml">>]

\* the order-preserving sub-lists of a list, of at most n entries
RECURSIVE SubLists(_, _)
SubLists(s, n) ==
    IF s = <<>> \/ n = 0 THEN {<<>>}
    ELSE SubLists(Tail(s), n)
         \cup {<<Head(s)>> \o t : t \in SubLists(Tail(s), n - 1)}

\* the lists without repetition over a set, of at most n entries
RECURSIVE Arrangements(_, _)
Arrangements(S, n) ==
    IF n = 0 THEN {<<>>}
    ELSE {<<>>} \cup
         UNION {{<<x>> \o t : t \in Arrangements(S \ {x}, n - 1)} : x \in S}

UiInputs == SubLists(UiPool, MaxComponents)

\* function.json entries in any directory order, then the serverless.yml entry
FnInputs ==
    Arrangements(AzurePool, MaxFunctions)
    \cup {Append(t, AwsEntry) : t \in Arrangements(AzurePool, MaxFunctions - 1)}

-----------------------------------------------------------------------------
(* cluster_features *)

MinPrefix == 4

RECURSIVE StrLess(_, _)
\* a < b on str
StrLess(a, b) ==
    IF b = <<>> THEN FALSE
    ELSE IF a = <<>> THEN TRUE
    ELSE IF Head(a) # Head(b) THEN Ord(Head(a)) < Ord(Head(b))
    ELSE StrLess(Tail(a), Tail(b))

\* insertion of the pair x = <<key, value>> behind every pair whose key is
\* not greater (stable)
RECURSIVE InsertSorted(_, _)
InsertSorted(sorted, x) ==
    IF sorted = <<>> THEN <<x>>
    ELSE IF StrLess(x[1], Head(sorted)[1])
         THEN <<x>> \o sorted
         ELSE <<Head(sorted)>> \o InsertSorted(Tail(sorted), x)

\* list.sort / sorted on <<key, value>> pairs, comparing the keys
RECURSIVE StableSort(_)
StableSort(s) ==
    IF s = <<>> THEN <<>>
    ELSE InsertSorted(StableSort(SubSeq(s, 1, Len(s) - 1)), s[Len(s)])

\* items.sort(key=lambda x: x[0])
SortItems(s) ==
    LET sorted == StableSort([i \in 1..Len(s) |-> <<s[i].norm, s[i]>>])
    IN  [i \in 1..Len(sorted) |-> sorted[i][2]]

\* sorted(clusters_map.items())
SortedEntries(map) ==
    LET sorted == StableSort([i \in 1..Len(map) |-> <<map[i].key, map[i]>>])
    IN  [i \in 1..Len(sorted) |-> sorted[i][2]]

\* the tuple appended for a UI component
ComponentItem(comp) ==
    [norm |-> normalize_name(comp.name),
     tier |-> IF HasScreensSegment(comp.path) THEN "mobile" ELSE "frontend",
     path |-> AddSlash(comp.path),
     type_hint |-> "user-facing"]

\* the tuple appended for a serverless function
FunctionItem(func) ==
    [norm |-> normalize_name(func.name), tier |-> "backend",
     path |-> func.path, type_hint |-> func.type_hint]

NotUnderscored(func) == func.name = <<>> \/ Head(func.name) # "_"

\* the unsorted items list
CollectedItems(ui, fns) ==
    LET kept == SelectSeq(fns, NotUnderscored)
    IN  [i \in 1..Len(ui) |-> ComponentItem(ui[i])]
        \o [i \in 1..Len(kept) |-> FunctionItem(kept[i])]

\* a floor one character too low
QualifiesFrom3(plen, best_plen) == plen >= MinPrefix - 1 /\ plen > best_plen
\* plen >= 4 and plen > best_plen
Qualifies(plen, best_plen) == plen >= MinPrefix /\ plen > best_plen

\* the scan over list(clusters_map.keys()): <<best_key index, best_plen>>
RECURSIVE BestFrom(_, _, _, _)
BestFrom(map, norm, k, best) ==
    IF k > Len(map) THEN best
    ELSE LET plen == common_prefix_len(norm, map[k].key)
         IN  IF Qualifies(plen, best[2])
             THEN BestFrom(map, norm, k + 1, <<k, plen>>)
             ELSE BestFrom(map, norm, k + 1, best)
Best(map, norm) == BestFrom(map, norm, 1, <<0, 0>>)

HasKey(map, key) == \E k \in 1..Len(map) : map[k].key = key
KeyIndex(map, key) == CHOOSE k \in 1..Len(map) : map[k].key = key

\* d.pop(key): the dict without the entry
DictPop(map, key) ==
    LET k == KeyIndex(map, key)
    IN  SubSeq(map, 1, k - 1) \o SubSeq(map, k + 1, Len(map))

\* an assignment that always adds an entry
DictSetAppends(map, entry) == Append(map, entry)
\* d[key] = value: replaces the value in place, or adds the entry at the end
DictSet(map, entry) ==
    IF HasKey(map, entry.key)
    THEN [map EXCEPT ![KeyIndex(map, entry.key)] = entry]
    ELSE Append(map, entry)

\* a re-keying that starts the cluster afresh
RekeyDropsMembers(map, best_key, common) ==
    DictSet(DictPop(map, best_key),
            [key |-> common, frontend |-> <<>>, backend |-> <<>>,
             mobile |-> <<>>, type_hint |-> "user-facing"])
\* clusters_map[common] = clusters_map.pop(best_key)
Rekey(map, best_key, common) ==
    DictSet(DictPop(map, best_key),
            [map[KeyIndex(map, best_key)] EXCEPT !.key = common])

\* an append that leaves the type hint of the cluster alone
AddMemberKeepsHint(map, common, item) ==
    [map EXCEPT ![KeyIndex(map, common)] =
        [@ EXCEPT ![item.tier] = Append(@, item.path)]]
\* clusters_map[common].setdefault(tier, []).append(path), then the type hint
AddMember(map, common, item) ==
    LET k == KeyIndex(map, common)
        hinted == IF item.type_hint # "user-facing"
                  THEN [map[k] EXCEPT !.type_hint = item.type_hint]
                  ELSE map[k]
    IN  [map EXCEPT ![k] = [hinted EXCEPT ![item.tier] = Append(@, item.path)]]

\* clusters_map[norm] = {tier: [path], "type_hint": type_hint}
SeedEntry(item) ==
    [[key |-> item.norm, frontend |-> <<>>, backend |-> <<>>, mobile |-> <<>>,
      type_hint |-> item.type_hint] EXCEPT ![item.tier] = <<item.path>>]

\* an iteration that seeds a cluster for every item
LoopBodySeedsAlways(map, item) == DictSet(map, SeedEntry(item))
\* one iteration of the greedy loop
LoopBody(map, item) ==
    LET best == Best(map, item.norm)
    IN  IF best[1] # 0
        THEN LET best_key == map[best[1]].key
                 common == SubSeq(item.norm, 1, best[2])
                 rekeyed == IF common # best_key
                            THEN Rekey(map, best_key, common)
                            ELSE map
             IN  AddMember(rekeyed, common, item)
        ELSE DictSet(map, SeedEntry(item))

TierCount(data) ==
    (IF data.frontend # <<>> THEN 1 ELSE 0)
    + (IF data.backend # <<>> THEN 1 ELSE 0)
    + (IF data.mobile # <<>> THEN 1 ELSE 0)

ConfidenceAtLeastOne(tier_count) ==
    IF tier_count >= 2 THEN "high"
    ELSE IF tier_count >= 1 THEN "medium" ELSE "low"
\* "high" if tier_count >= 3 else ("medium" if tier_count >= 2 else "low")
Confidence(tier_count) ==
    IF tier_count >= 3 THEN "high"
    ELSE IF tier_count >= 2 THEN "medium" ELSE "low"

\* the dict appended to the output for one (key, data)
OutputCluster(data) ==
    [name |-> data.key, frontend |-> data.frontend, backend |-> data.backend,
     mobile |-> data.mobile, has_tests |-> FALSE, type_hint |-> data.type_hint,
     confidence |-> Confidence(TierCount(data))]

\* the output list over sorted(clusters_map.items())
BuiltOutput(map) ==
    LET sorted == SortedEntries(map)
    IN  [k \in 1..Len(sorted) |-> OutputCluster(sorted[k])]

Init ==
    /\ pc = "collect"
    /\ ui_components \in UiInputs
    /\ serverless_functions \in FnInputs
    /\ items = <<>> /\ pos = 0 /\ clusters_map = <<>> /\ clusters = <<>>
    /\ IdleNorm /\ IdleDomains /\ IdleOther

\* the two collecting loops, the early return and the sort
CollectItems ==
    /\ pc = "collect"
    /\ LET collected == CollectedItems(ui_components, serverless_functions)
       IN  IF collected = <<>>
           THEN /\ pc' = "clustered"
                /\ UNCHANGED items
           ELSE /\ pc' = "loop"
                /\ items' = SortItems(collected)
    /\ UNCHANGED <<ui_components, serverless_functions, pos, clusters_map,
                   clusters, normVars, domainVars, otherVars>>

\* one pass of "for norm, tier, path, type_hint in items"
ClusterStep ==
    /\ pc = "loop"
    /\ pos < Len(items)
    /\ clusters_map' = LoopBody(clusters_map, items[pos + 1])
    /\ pos' = pos + 1
    /\ UNCHANGED <<pc, ui_components, serverless_functions, items, clusters,
                   normVars, domainVars, otherVars>>

\* the output loop and the return
BuildOutput ==
    /\ pc = "loop"
    /\ pos = Len(items)
    /\ clusters' = BuiltOutput(clusters_map)
    /\ pc' = "clustered"
    /\ UNCHANGED <<ui_components, serverless_functions, items, pos,
                   clusters_map, normVars, domainVars, otherVars>>

Next == CollectItems \/ ClusterStep \/ BuildOutput

Spec == Init /\ [][Next]_vars


-----------------------------------------------------------------------------
(* Properties of cluster_features *)

\* the member paths of a cluster (an entry of clusters_map or of the output)
PathsOf(c) == Range(c.frontend) \cup Range(c.backend) \cup Range(c.mobile)

Together(i, j, cs) ==
    \E k \in 1..Len(cs) :
        items[i].path \in PathsOf(cs[k]) /\ items[j].path \in PathsOf(cs[k])

SharedPrefix(i, j) == common_prefix_len(items[i].norm, items[j].norm)

\* C3: two candidates whose normalized names share fewer than 4 leading
\* characters never have their paths in the same cluster, neither in
\* clusters_map after any step of the greedy loop nor in the returned list.
C3_PrefixFloor ==
    \A i, j \in 1..Len(items) :
        (i # j /\ SharedPrefix(i, j) < 4) =>
            ~Together(i, j, clusters_map) /\ ~Together(i, j, clusters)

\* the run is over and two candidates sharing exactly 3 characters are
\* both listed, each in its own cluster
C3_Witness ==
    /\ pc = "clustered"
    /\ \E i, j \in 1..Len(items) :
        /\ SharedPrefix(i, j) = 3
        /\ Len(items[j].norm) > 3
        /\ \E k, l \in 1..Len(clusters) :
            /\ k # l
            /\ items[i].path \in PathsOf(clusters[k])
            /\ items[j].path \in PathsOf(clusters[l])

IsCheckoutScenario ==
    /\ Len(ui_components) = 1
    /\ ui_components[1].name = Checkout
    /\ ~HasScreensSegment(ui_components[1].path)
    /\ Len(serverless_functions) = 1
    /\ serverless_functions[1].name = CheckoutApi

\* C4: any two candidates whose normalized names share at least 4 leading
\* characters are listed in the same returned cluster; a frontend component
\* Checkout and a function checkoutApi alone give one cluster with non-empty
\* frontend and backend lists and confidence medium.
C4_SharedPrefixMerged ==
    pc = "clustered" =>
        /\ \A i, j \in 1..Len(items) :
            (i # j /\ SharedPrefix(i, j) >= 4) => Together(i, j, clusters)
        /\ IsCheckoutScenario =>
            /\ Len(clusters) = 1
            /\ clusters[1].frontend # <<>>
            /\ clusters[1].backend # <<>>
            /\ clusters[1].confidence = "medium"

\* the Checkout / checkoutApi run is over
C4_Witness == pc = "clustered" /\ IsCheckoutScenario /\ Len(clusters) = 1

NonEmptyTiers(c) ==
    Cardinality({t \in {"frontend", "backend", "mobile"} : c[t] # <<>>})

\* C5: a returned cluster has confidence high iff its frontend, backend and
\* mobile lists are all non-empty, medium iff exactly two are, low otherwise.
C5_Confidence ==
    pc = "clustered" =>
        \A k \in 1..Len(clusters) :
            /\ clusters[k].confidence = "high" <=> NonEmptyTiers(clusters[k]) = 3
            /\ clusters[k].confidence = "medium" <=> NonEmptyTiers(clusters[k]) = 2
            /\ clusters[k].confidence = "low" <=> NonEmptyTiers(clusters[k]) < 2

\* a cluster of each confidence has been returned
C5_Witness ==
    /\ pc = "clustered"
    /\ \E k \in 1..Len(clusters) : NonEmptyTiers(clusters[k]) = 3
    /\ \E k \in 1..Len(clusters) : NonEmptyTiers(clusters[k]) = 1

\* C8: no two clusters of the returned list have the same name.
C8_UniqueNames ==
    \A k, l \in 1..Len(clusters) : k # l => clusters[k].name # clusters[l].name

\* two candidates with the same short normalized name were processed and
\* several clusters returned
C8_Witness ==
    /\ pc = "clustered"
    /\ Len(clusters) >= 2
    /\ \E i, j \in 1..Len(items) :
        i # j /\ items[i].norm = items[j].norm /\ Len(items[i].norm) < 4


-----------------------------------------------------------------------------
(* Inputs of detect_domains *)

\* _FRAMEWORK_DOMAIN_TYPE
FrontendFrameworks ==
    {"React", "Vue", "Angular", "Next.js", "Nuxt", "SvelteKit", "Svelte",
     "Astro", "Gatsby", "Remix", "Electron", "Bevy", "Tauri"}
MobileFrameworks == {"React Native", "Flutter"}
BackendFrameworks ==
    {"Express", "FastAPI", "Django", "Flask", "Fastify", "Koa", "Hono", "Gin",
     "Echo", "Fiber", "Chi", "Gorilla Mux", "Actix Web", "Axum", "Rocket",
     "Warp", "Azure Functions"}

\* _FRAMEWORK_DOMAIN_TYPE.get(fw, "shared")
FrameworkDomainType(fw) ==
    IF fw \in FrontendFrameworks THEN "frontend"
    ELSE IF fw \in MobileFrameworks THEN "mobile"
    ELSE IF fw \in BackendFrameworks THEN "backend"
    ELSE "shared"

\* the dict detect_sub_projects appends for a child directory
SubProject(name, framework) ==
    [name |-> name, path |-> <<name, "">>, framework |-> framework]

\* what detect_sub_projects can return: children in sorted order
SubProjectPool == <<
    SubProject("api", "Express"),
    SubProject("app", "React Native"),
    SubProject("lib", None),
    SubProject("web", "React") >>

Cluster(name, frontend, backend, mobile) ==
    OutputCluster([key |-> name, frontend |-> frontend, backend |-> backend,
                   mobile |-> mobile, type_hint |-> "user-facing"])

\* lists cluster_features can return: sorted by name, names distinct
ClusterPool == <<
    Cluster(<<"a","d","m","i","n","u","s","e","r","s">>,
            <<>>, <<<<"adminUsers">>>>, <<>>),
    Cluster(<<"c","a","r","t">>,
            <<<<"src", "components", "Cart", "">>>>, <<<<"cartApi">>>>, <<>>),
    Cluster(<<"c","h","e","c","k","o","u","t">>,
            <<<<"web", "src", "components", "Checkout", "">>>>,
            <<<<"api", "checkoutApi">>>>, <<>>),
    Cluster(<<"p","r","o","f","i","l","e">>,
            <<>>, <<>>, <<<<"src", "screens", "Profile", "">>>>) >>

\* what detect_infra_patterns can return, in its detection order
InfraPool == <<
    [type |-> "ci_cd",      path |-> ".github/workflows"],
    [type |-> "iac",        path |-> "terraform"],
    [type |-> "container",  path |-> "Dockerfile"],
    [type |-> "deployment", path |-> "deploy"] >>

\* what step 4 reads below the root: the directory name, the "name" of
\* package.json split on "/" (None: no package.json, no name, or unparsable),
\* whether a project marker and host.json exist, the framework found through
\* the marker and the one detect_stack reports
RootFacts == {
    [name |-> "repo", package_name |-> None, marker |-> FALSE,
     host_json |-> FALSE, marker_framework |-> None, stack_framework |-> None],
    [name |-> "repo", package_name |-> <<"@acme", "shop">>, marker |-> TRUE,
     host_json |-> FALSE, marker_framework |-> "Next.js", stack_framework |-> "Next.js"],
    [name |-> "repo", package_name |-> None, marker |-> TRUE,
     host_json |-> TRUE, marker_framework |-> None, stack_framework |-> None] }

-----------------------------------------------------------------------------
(* detect_domains *)

\* p.startswith(name + "/")
StartsWithDir(p, name) == Len(p) >= 2 /\ p[1] = name

\* p.startswith(prefix) for a prefix that ends with "/"
StartsWithPath(p, prefix) ==
    /\ Len(p) >= Len(prefix)
    /\ \A i \in 1..(Len(prefix) - 1) : p[i] = prefix[i]

ClusterPaths(cluster) == cluster.frontend \o cluster.backend \o cluster.mobile

\* some member path lies under the sub-project
UnderSubProject(cluster, sp) ==
    \E i \in 1..Len(ClusterPaths(cluster)) :
        \/ StartsWithDir(ClusterPaths(cluster)[i], sp.name)
        \/ StartsWithPath(ClusterPaths(cluster)[i], sp.path)

\* a guard that lets every sub-project claim the cluster
UnclaimedAlways(name, assigned) == TRUE
\* cluster["name"] not in cluster_assigned
Unclaimed(name, assigned) == name \notin assigned

\* the inner loop over feature_clusters: <<matched_clusters, cluster_assigned>>
RECURSIVE MatchClusters(_, _, _, _)
MatchClusters(sp, cs, matched, assigned) ==
    IF cs = <<>> THEN <<matched, assigned>>
    ELSE IF UnderSubProject(Head(cs), sp) /\ Unclaimed(Head(cs).name, assigned)
         THEN MatchClusters(sp, Tail(cs), Append(matched, Head(cs).name),
                            assigned \cup {Head(cs).name})
         ELSE MatchClusters(sp, Tail(cs), matched, assigned)

Max(a, b) == IF a >= b THEN a ELSE b

\* sp.get("file_count", 3): detect_sub_projects sets no file_count
DefaultFileCount == 3

\* the domain appended for a sub-project
SubProjectDomain(sp, matched) ==
    [name |-> sp.name,
     type |-> FrameworkDomainType(sp.framework),
     sub_projects |-> <<sp.name>>,
     clusters |-> matched,
     infra_paths |-> <<>>,
     estimated_features |-> IF matched # <<>> THEN Len(matched)
                            ELSE Max(1, DefaultFileCount \div 3)]

\* step 1, the loop over sub_projects: <<domains, cluster_assigned>>
RECURSIVE SubProjectLoop(_, _, _, _)
SubProjectLoop(sps, cs, ds, assigned) ==
    IF sps = <<>> THEN <<ds, assigned>>
    ELSE LET m == MatchClusters(Head(sps), cs, <<>>, assigned)
         IN  SubProjectLoop(Tail(sps), cs,
                            Append(ds, SubProjectDomain(Head(sps), m[1])), m[2])

IsIac(p) == p.type = "iac"

InfraThreshold == 3

\* a test that looks at the iac directories only
WantsInfraDomainForIac(patterns) == SelectSeq(patterns, IsIac) # <<>>
\* len(infra_patterns) >= 3 or iac_dirs
WantsInfraDomain(patterns) ==
    Len(patterns) >= InfraThreshold \/ SelectSeq(patterns, IsIac) # <<>>

InfrastructureDomain(patterns) ==
    [name |-> "infrastructure", type |-> "infrastructure",
     sub_projects |-> <<>>, clusters |-> <<>>,
     infra_paths |-> [i \in 1..Len(patterns) |-> patterns[i].path],
     estimated_features |-> Max(1, Len(patterns))]

HasDomainOfType(ds, type) == \E k \in 1..Len(ds) : ds[k].type = type
FirstOfType(ds, type) ==
    CHOOSE k \in 1..Len(ds) :
        ds[k].type = type /\ \A l \in 1..(k - 1) : ds[l].type # type

\* d["clusters"].append(name); d["estimated_features"] += 1 on the first
\* domain of the type
AppendToFirst(ds, type, name) ==
    [ds EXCEPT ![FirstOfType(ds, type)] =
        [@ EXCEPT !.clusters = Append(@, name),
                  !.estimated_features = @ + 1]]

\* a choice that looks at the backend paths first
TierChoiceBackendFirst(cluster, ds) ==
    IF cluster.backend # <<>> /\ HasDomainOfType(ds, "backend") THEN "backend"
    ELSE IF cluster.frontend # <<>> /\ HasDomainOfType(ds, "frontend") THEN "frontend"
    ELSE IF cluster.mobile # <<>> /\ HasDomainOfType(ds, "mobile") THEN "mobile"
    ELSE None
\* the tier an orphan cluster is assigned by, or None
TierChoice(cluster, ds) ==
    IF cluster.frontend # <<>> /\ HasDomainOfType(ds, "frontend") THEN "frontend"
    ELSE IF cluster.backend # <<>> /\ HasDomainOfType(ds, "backend") THEN "backend"
    ELSE IF cluster.mobile # <<>> /\ HasDomainOfType(ds, "mobile") THEN "mobile"
    ELSE None

\* step 3, the loop over orphan_clusters: <<domains, cluster_assigned>>
RECURSIVE OrphanLoop(_, _, _)
OrphanLoop(orphans, ds, assigned) ==
    IF orphans = <<>> THEN <<ds, assigned>>
    ELSE LET cluster == Head(orphans)
             tier == TierChoice(cluster, ds)
         IN  IF tier # None
             THEN OrphanLoop(Tail(orphans),
                             AppendToFirst(ds, tier, cluster.name), assigned)
             ELSE OrphanLoop(Tail(orphans), ds, assigned \cup {cluster.name})

ListedSomewhere(name, ds) == \E k \in 1..Len(ds) : name \in Range(ds[k].clusters)

\* still_orphan
StillOrphan(cs, ds, assigned) ==
    LET names == [i \in 1..Len(cs) |-> cs[i].name]
        Test(n) == n \notin assigned /\ ~ListedSomewhere(n, ds)
    IN  SelectSeq(names, Test)

UncategorizedDomain(still_orphan) ==
    [name |-> "uncategorized", type |-> "uncategorized",
     sub_projects |-> <<>>, clusters |-> still_orphan, infra_paths |-> <<>>,
     estimated_features |-> Len(still_orphan)]

\* root.name, or the last "/"-part of the package.json name
RootDomainName(r) ==
    IF r.package_name # None THEN r.package_name[Len(r.package_name)]
    ELSE r.name

\* the framework step 4 settles on
RootFramework(r) ==
    LET fw == IF r.marker
              THEN (IF r.host_json THEN "Azure Functions" ELSE r.marker_framework)
              ELSE None
    IN  IF fw = None THEN r.stack_framework ELSE fw

RootDomain(r, cs, patterns) ==
    LET all_cluster_names == [i \in 1..Len(cs) |-> cs[i].name]
    IN  [name |-> RootDomainName(r),
         type |-> FrameworkDomainType(RootFramework(r)),
         sub_projects |-> <<>>,
         clusters |-> all_cluster_names,
         infra_paths |-> [i \in 1..Len(patterns) |-> patterns[i].path],
         estimated_features |-> Max(Len(all_cluster_names), Len(cs))]

InitDomains ==
    /\ pc = "sub_projects"
    /\ root \in RootFacts
    /\ sub_projects \in SubLists(SubProjectPool, MaxSubProjects)
    /\ feature_clusters \in SubLists(ClusterPool, MaxClusters)
    /\ infra_patterns \in SubLists(InfraPool, MaxInfra)
    /\ domains = <<>>
    /\ cluster_assigned = {}
    /\ IdleNorm /\ IdleCluster /\ IdleOther

\* step 1: a domain for each sub-project, with the clusters below it
SubProjectDomains ==
    /\ pc = "sub_projects"
    /\ LET r == SubProjectLoop(sub_projects, feature_clusters, domains,
                               cluster_assigned)
       IN  domains' = r[1] /\ cluster_assigned' = r[2]
    /\ pc' = "infrastructure"
    /\ UNCHANGED <<root, sub_projects, feature_clusters, infra_patterns,
                   normVars, clusterVars, otherVars>>

\* step 2: the infrastructure domain
InfraDomain ==
    /\ pc = "infrastructure"
    /\ domains' = IF WantsInfraDomain(infra_patterns)
                  THEN Append(domains, InfrastructureDomain(infra_patterns))
                  ELSE domains
    /\ pc' = "orphans"
    /\ UNCHANGED <<root, sub_projects, feature_clusters, infra_patterns,
                   cluster_assigned, normVars, clusterVars, otherVars>>

NotAssigned(cluster) == cluster.name \notin cluster_assigned

\* step 3: orphan clusters go to a domain of a matching tier type
AssignOrphans ==
    /\ pc = "orphans"
    /\ LET orphan_clusters == SelectSeq(feature_clusters, NotAssigned)
           r == OrphanLoop(orphan_clusters, domains, cluster_assigned)
       IN  IF orphan_clusters # <<>> /\ domains # <<>>
           THEN domains' = r[1] /\ cluster_assigned' = r[2]
           ELSE UNCHANGED <<domains, cluster_assigned>>
    /\ pc' = "uncategorized"
    /\ UNCHANGED <<root, sub_projects, feature_clusters, infra_patterns,
                   normVars, clusterVars, otherVars>>

\* the uncategorized domain
Uncategorized ==
    /\ pc = "uncategorized"
    /\ LET still_orphan == StillOrphan(feature_clusters, domains, cluster_assigned)
       IN  domains' = IF still_orphan # <<>>
                      THEN Append(domains, UncategorizedDomain(still_orphan))
                      ELSE domains
    /\ pc' = "single_project"
    /\ UNCHANGED <<root, sub_projects, feature_clusters, infra_patterns,
                   cluster_assigned, normVars, clusterVars, otherVars>>

\* a return without step 4
SingleProjectSkipped ==
    /\ pc = "single_project"
    /\ pc' = "returned"
    /\ UNCHANGED <<root, sub_projects, feature_clusters, infra_patterns, domains,
                   cluster_assigned, normVars, clusterVars, otherVars>>
\* step 4 and the return
SingleProject ==
    /\ pc = "single_project"
    /\ domains' = IF sub_projects = <<>> /\ domains = <<>>
                  THEN Append(domains,
                              RootDomain(root, feature_clusters, infra_patterns))
                  ELSE domains
    /\ pc' = "returned"
    /\ UNCHANGED <<root, sub_projects, feature_clusters, infra_patterns,
                   cluster_assigned, normVars, clusterVars, otherVars>>

NextDomains ==
    \/ SubProjectDomains
    \/ InfraDomain
    \/ AssignOrphans
    \/ Uncategorized
    \/ SingleProject

SpecDomains == InitDomains /\ [][NextDomains]_vars


-----------------------------------------------------------------------------
(* Properties of detect_domains *)

\* the domains whose clusters list holds the name
ListingDomains(name) == {k \in 1..Len(domains) : name \in Range(domains[k].clusters)}

\* the sub-projects, by position, with a member path of the cluster below them
HostSubProjects(cluster) ==
    {i \in 1..Len(sub_projects) : UnderSubProject(cluster, sub_projects[i])}

\* no sub-project holds a member path and no domain has the type of one of
\* the cluster's non-empty tiers
Homeless(cluster) ==
    /\ HostSubProjects(cluster) = {}
    /\ \A t \in {"frontend", "backend", "mobile"} :
        cluster[t] # <<>> => ~HasDomainOfType(domains, t)

\* C1: every cluster name of feature_clusters is in the clusters list of
\* exactly one returned domain, and a cluster claimed neither by a
\* sub-project path prefix nor by a domain of a matching tier type is listed
\* in the domain named uncategorized.
C1_Coverage ==
    pc = "returned" =>
        \A i \in 1..Len(feature_clusters) :
            /\ Cardinality(ListingDomains(feature_clusters[i].name)) = 1
            /\ Homeless(feature_clusters[i]) =>
                \E k \in ListingDomains(feature_clusters[i].name) :
                    domains[k].name = "uncategorized"

AllClusterNames == [i \in 1..Len(feature_clusters) |-> feature_clusters[i].name]

\* C2: with an empty sub-project list the result is one domain synthesized
\* from the root (name from package.json or the directory, type from the
\* root's framework) whose clusters list holds every cluster, whatever the
\* clusters and infra patterns.
C2_SingleRootDomain ==
    (pc = "returned" /\ sub_projects = <<>>) =>
        /\ Len(domains) = 1
        /\ domains[1].name = RootDomainName(root)
        /\ domains[1].type = FrameworkDomainType(RootFramework(root))
        /\ domains[1].clusters = AllClusterNames

Least(S) == CHOOSE i \in S : \A j \in S : i <= j

\* C9: no cluster name is in the clusters list of more than one domain, and
\* a cluster with member paths under several sub-projects is attached to the
\* domain of the first of them in list order, and to no other.
C9_ClaimedOnce ==
    /\ \A i \in 1..Len(feature_clusters) :
        Cardinality(ListingDomains(feature_clusters[i].name)) <= 1
    /\ pc = "returned" =>
        \A i \in 1..Len(feature_clusters) :
            Cardinality(HostSubProjects(feature_clusters[i])) >= 2 =>
                LET first == Least(HostSubProjects(feature_clusters[i]))
                IN  /\ ListingDomains(feature_clusters[i].name) = {first}
                    /\ domains[first].sub_projects = <<sub_projects[first].name>>

\* detect_domains returned for a cluster with member paths under two
\* sub-projects
C9_Witness ==
    /\ pc = "returned"
    /\ \E i \in 1..Len(feature_clusters) :
        Cardinality(HostSubProjects(feature_clusters[i])) >= 2

\* C10: with no sub-project and no cluster, exactly one domain is returned,
\* named from the root directory or the manifest name, with
\* estimated_features 0, whatever the infra patterns.
C10_EmptyRepository ==
    (pc = "returned" /\ sub_projects = <<>> /\ feature_clusters = <<>>) =>
        /\ Len(domains) = 1
        /\ domains[1].name = RootDomainName(root)
        /\ domains[1].estimated_features = 0

-----------------------------------------------------------------------------
(* should_exclude *)

EXCLUDE_DIRS == {
    ".agentic", ".agentic-journal", ".agentic-state",
    "node_modules", ".git", "__pycache__", "build", "dist",
    ".next", ".nuxt", "target", "vendor", ".venv", "venv",
    "env", ".env", ".tox", ".mypy_cache", ".pytest_cache",
    "coverage", ".coverage", "htmlcov", ".eggs", "*.egg-info",
    ".gradle", ".idea", ".vscode", "bin", "obj" }

\* the segment names of the model that begin with "."
DotNames == {".agentic", ".agentic-journal", ".agentic-state", ".git", ".next",
             ".nuxt", ".venv", ".env", ".tox", ".mypy_cache", ".pytest_cache",
             ".coverage", ".eggs", ".gradle", ".idea", ".vscode",
             ".cache", ".github"}

\* part.startswith(".")
StartsWithDot(part) == part \in DotNames

\* a directory name the scanners are meant to stay out of
ExcludedName(part) == part \in EXCLUDE_DIRS \/ StartsWithDot(part)

should_exclude(path) == \E i \in 1..Len(path) : ExcludedName(path[i])

\* the path lies below a directory the scanners are meant to stay out of
BelowExcluded(path) == \E i \in 1..(Len(path) - 1) : ExcludedName(path[i])

-----------------------------------------------------------------------------
(* detect_serverless_functions *)

MaxDescriptors == 3

MAX_FEATURES == 50

\* binding types: btype.endswith("Trigger") and
\* btype.replace("Trigger", "").lower(); "<number>" is a JSON number
TriggerTypes == <<[type |-> "httpTrigger",  trigger |-> "http"],
                  [type |-> "timerTrigger", trigger |-> "timer"],
                  [type |-> "Trigger",      trigger |-> ""]>>
EndsWithTrigger(btype) == \E i \in 1..Len(TriggerTypes) : TriggerTypes[i].type = btype
TriggerOf(btype) ==
    TriggerTypes[CHOOSE i \in 1..Len(TriggerTypes) : TriggerTypes[i].type = btype].trigger

\* m.upper() on the HTTP verbs
MethodUpper(m) == CASE m = "get" -> "GET" [] m = "post" -> "POST" [] OTHER -> m

Absent == [kind |-> "absent", items |-> <<>>]
Scalar == [kind |-> "number", items |-> <<>>]
JsonList(xs) == [kind |-> "list", items |-> xs]

Binding(t, dir, route, methods) ==
    [is_object |-> TRUE, type |-> t, direction |-> dir, route |-> route,
     methods |-> methods]
\* a JSON string where a binding object is expected
StringBinding ==
    [is_object |-> FALSE, type |-> "", direction |-> "", route |-> None,
     methods |-> Absent]

HttpBinding == Binding("httpTrigger", "in", "checkout", JsonList(<<"get", "post">>))
HttpOut == Binding("http", "out", None, Absent)
TimerBinding == Binding("timerTrigger", "in", None, Absent)

Unparsable == [parses |-> FALSE, is_object |-> FALSE, bindings |-> Absent]
Config(b) == [parses |-> TRUE, is_object |-> TRUE, bindings |-> b]
\* a file holding a JSON array
ArrayConfig == [parses |-> TRUE, is_object |-> FALSE, bindings |-> Absent]

Broken == <<"b","r","o","k","e","n">>
Ping == <<"p","i","n","g">>

\* the function.json files of the model: the directory and its name, the
\* file's content and whether the content is a valid descriptor
DescriptorPool == {
    [dir |-> <<"functions", "checkoutApi">>, name |-> CheckoutApi, valid |-> TRUE,
     content |-> Config(JsonList(<<HttpBinding, HttpOut>>))],
    [dir |-> <<"adminUsers">>, name |-> AdminUsers, valid |-> TRUE,
     content |-> Config(JsonList(<<TimerBinding>>))],
    [dir |-> <<"ping">>, name |-> Ping, valid |-> TRUE,
     content |-> Config(Absent)],
    [dir |-> <<"node_modules", "pkg", "cartApi">>, name |-> CartApi, valid |-> TRUE,
     content |-> Config(JsonList(<<HttpBinding>>))],
    [dir |-> <<"broken">>, name |-> Broken, valid |-> FALSE,
     content |-> Unparsable],
    [dir |-> <<"functions", "broken">>, name |-> Broken, valid |-> FALSE,
     content |-> ArrayConfig],
    [dir |-> <<"che">>, name |-> CheLower, valid |-> FALSE,
     content |-> Config(Scalar)],
    [dir |-> <<"cartApi">>, name |-> CartApi, valid |-> FALSE,
     content |-> Config(JsonList(<<HttpBinding, StringBinding>>))],
    [dir |-> <<"functions", "che">>, name |-> CheLower, valid |-> FALSE,
     content |-> Config(JsonList(<<Binding("<number>", "in", None, Absent)>>))],
    [dir |-> <<"functions", "cartApi">>, name |-> CartApi, valid |-> FALSE,
     content |-> Config(JsonList(<<Binding("httpTrigger", "in", "cart", Scalar)>>))] }

\* a tree with one valid descriptor more than MAX_FEATURES, in the directories
\* functions/0/1, functions/0/2, ...
ManyDescriptors ==
    [i \in 1..(MAX_FEATURES + 1) |->
        [dir |-> <<"functions", DigitChars[(i \div 10) + 1], DigitChars[(i % 10) + 1]>>,
         name |-> <<DigitChars[(i % 10) + 1]>>, valid |-> TRUE,
         content |-> Config(JsonList(<<HttpBinding>>))]]

Hello == <<"h","e","l","l","o">>

\* sorted(api_dir.rglob("*")) of the model
ApiPool == <<
    [path |-> <<"api", "adminTool.ts">>, is_file |-> TRUE, suffix |-> ".ts",
     stem |-> <<"a","d","m","i","n","T","o","o","l">>, route |-> <<"adminTool">>],
    [path |-> <<"api", "cart">>, is_file |-> FALSE, suffix |-> "",
     stem |-> <<"c","a","r","t">>, route |-> <<"cart">>],
    [path |-> <<"api", "hello.TS">>, is_file |-> TRUE, suffix |-> ".TS",
     stem |-> Hello, route |-> <<"hello">>],
    [path |-> <<"api", "readme.md">>, is_file |-> TRUE, suffix |-> ".md",
     stem |-> <<"r","e","a","d","m","e">>, route |-> <<"readme">>] >>

SOURCE_EXTENSIONS == {
    ".py", ".ts", ".js", ".tsx", ".jsx", ".go", ".rs", ".java",
    ".rb", ".gd", ".cs", ".cpp", ".c", ".swift", ".kt", ".scala",
    ".php", ".ex", ".exs", ".hs", ".ml", ".clj" }

AwsConfigNames == <<"serverless.yml", "serverless.yaml", "template.yaml", "template.yml">>

\* the body of "for b in bindings": the locals after the bindings in bs, or
\* raised if one of them is not an object, has a non-string type with
\* direction "in", or (see MethodsOf) carries methods that cannot be iterated
RECURSIVE BindingsLoop(_, _)
BindingsLoop(bs, acc) ==
    IF bs = <<>> THEN acc
    ELSE LET b == Head(bs)
         IN  IF ~b.is_object THEN [acc EXCEPT !.raised = TRUE]
             ELSE IF b.direction # "in" THEN BindingsLoop(Tail(bs), acc)
             ELSE IF b.type = "<number>" THEN [acc EXCEPT !.raised = TRUE]
             ELSE IF EndsWithTrigger(b.type)
                  THEN BindingsLoop(Tail(bs),
                          [raised |-> FALSE, trigger |-> TriggerOf(b.type),
                           route |-> b.route, methods |-> b.methods])
             ELSE BindingsLoop(Tail(bs), acc)

\* the body of the try block up to the append: raised, or the entry
ReadDescriptor(fj) ==
    LET c == fj.content
        start == [raised |-> FALSE, trigger |-> None, route |-> None,
                  methods |-> Absent]
        loc == IF ~c.parses \/ ~c.is_object \/ c.bindings.kind = "number"
               THEN [start EXCEPT !.raised = TRUE]
               ELSE BindingsLoop(c.bindings.items, start)
        ms == loc.methods.items
    IN  IF loc.raised \/ loc.methods.kind = "number"
        THEN [raised |-> TRUE, entry |-> None]
        ELSE [raised |-> FALSE,
              entry |-> [name |-> fj.name,
                         trigger |-> IF loc.trigger \in {None, ""} THEN "unknown"
                                     ELSE loc.trigger,
                         route |-> loc.route,
                         methods |-> [i \in 1..Len(ms) |-> MethodUpper(ms[i])],
                         type_hint |-> serverless_type_hint(fj.name),
                         path |-> fj.dir]]

\* an exception that ends the whole scan of the descriptors
ExceptBreak(p) == Len(descriptors)
\* except Exception: continue
ExceptContinue(p) == p + 1

AwsLambdaEntry(cfg) ==
    [name |-> AwsLambdaConfig, trigger |-> "config_file", route |-> None,
     methods |-> <<>>, type_hint |-> "infrastructure", path |-> <<cfg>>]

VercelEntry(f) ==
    [name |-> f.stem, trigger |-> "http", route |-> f.route, methods |-> <<>>,
     type_hint |-> serverless_type_hint(f.stem), path |-> f.path]

IsVercelFunction(f) ==
    f.is_file /\ f.suffix \in SOURCE_EXTENSIONS /\ ~should_exclude(f.path)

InitServerless ==
    /\ pc = "function_json"
    /\ descriptors \in Arrangements(DescriptorPool, MaxDescriptors) \cup {ManyDescriptors}
    /\ aws_config \in SUBSET {"serverless.yaml", "template.yaml"}
    /\ api_files \in {<<>>, ApiPool}
    /\ fn_pos = 0 /\ functions = <<>> /\ visited = {}
    /\ IdleNorm /\ IdleCluster /\ IdleDomains /\ IdleButScan

\* one pass of "for fj in root.rglob('function.json')"
ScanDescriptor ==
    /\ pc = "function_json"
    /\ fn_pos < Len(descriptors)
    /\ LET fj == descriptors[fn_pos + 1]
           rel == Append(fj.dir, "function.json")
           r == ReadDescriptor(fj)
       IN  /\ visited' = visited \cup {rel}
           /\ IF should_exclude(rel)
              THEN fn_pos' = fn_pos + 1 /\ UNCHANGED functions
              ELSE IF r.raised
                   THEN fn_pos' = ExceptContinue(fn_pos) /\ UNCHANGED functions
                   ELSE /\ fn_pos' = fn_pos + 1
                        /\ functions' = Append(functions, r.entry)
    /\ UNCHANGED <<pc, descriptors, aws_config, api_files, restScan>>

\* the AWS Lambda config files, the first that exists
AwsLambda ==
    /\ pc = "function_json"
    /\ fn_pos = Len(descriptors)
    /\ LET found == {i \in 1..Len(AwsConfigNames) : AwsConfigNames[i] \in aws_config}
       IN  functions' = IF found = {} THEN functions
                        ELSE Append(functions,
                                AwsLambdaEntry(AwsConfigNames[
                                    CHOOSE i \in found : \A j \in found : i <= j]))
    /\ pc' = "vercel"
    /\ UNCHANGED <<descriptors, aws_config, api_files, fn_pos, visited, restScan>>

\* the api/ directory
Vercel ==
    /\ pc = "vercel"
    /\ functions' = functions \o
          [i \in 1..Len(SelectSeq(api_files, IsVercelFunction)) |->
              VercelEntry(SelectSeq(api_files, IsVercelFunction)[i])]
    /\ visited' = visited \cup Range([i \in 1..Len(api_files) |-> api_files[i].path])
    /\ pc' = "functions_returned"
    /\ UNCHANGED <<descriptors, aws_config, api_files, fn_pos, restScan>>

NextServerless == ScanDescriptor \/ AwsLambda \/ Vercel

SpecServerless == InitServerless /\ [][NextServerless]_vars

-----------------------------------------------------------------------------
(* Claims about detect_serverless_functions *)

Scanned(d) == ~should_exclude(d.dir)

\* the descriptors the scan is to turn into entries
ValidDescriptors == SelectSeq(descriptors, LAMBDA d : d.valid /\ Scanned(d))

\* the function.json entries of the list: those in front of the AWS and
\* Vercel entries
AzureEntries ==
    SelectSeq(functions, LAMBDA e : e.trigger \notin {"config_file"}
                                    /\ ~\E i \in 1..Len(ApiPool) : ApiPool[i].path = e.path)

\* C11: a descriptor that does not parse, or whose bindings are malformed,
\* costs its own entry only: when the scan of the descriptors is over, the
\* list holds exactly one entry for every valid descriptor, in scan order,
\* and the call goes on to return.
C11_MalformedIsolated ==
    /\ (pc = "function_json" /\ fn_pos = Len(descriptors)) =>
          /\ Len(functions) = Len(ValidDescriptors)
          /\ \A i \in 1..Len(functions) :
                /\ functions[i].name = ValidDescriptors[i].name
                /\ functions[i].path = ValidDescriptors[i].dir
    /\ pc = "functions_returned" =>
          /\ Len(AzureEntries) = Len(ValidDescriptors)
          /\ \A i \in 1..Len(AzureEntries) :
                AzureEntries[i].path = ValidDescriptors[i].dir

\* two valid descriptors and an unparsable one between or before them have
\* been scanned, and the call has returned two function.json entries
C11_Witness ==
    /\ pc = "functions_returned"
    /\ Len(descriptors) = 3
    /\ Len(ValidDescriptors) = 2
    /\ \E i \in 1..2 : ~descriptors[i].content.parses
    /\ descriptors[3].valid /\ Scanned(descriptors[3])
    /\ Len(AzureEntries) = 2

\* C13: no traversal is handed a file or directory that lies below an
\* excluded or dot-prefixed directory.
C13_PrunedTraversals == \A path \in visited : ~BelowExcluded(path)

-----------------------------------------------------------------------------
(* count_source_files *)

MAX_FILES_SCAN == 10000
MAX_DEPTH == 5

\* Path(f).suffix.lower()
SuffixLower(suffix) ==
    CASE suffix = ".TS" -> ".ts" [] suffix = ".PY" -> ".py" [] OTHER -> suffix

\* The files of a directory, in listing order, as runs of n files with the
\* same suffix
NoFiles == <<>>
FilePool == {
    NoFiles,
    <<[suffix |-> ".py", n |-> 4000]>>,
    <<[suffix |-> ".TS", n |-> 6000], [suffix |-> ".txt", n |-> 10001]>>,
    <<[suffix |-> ".txt", n |-> 10001]>> }

\* the directories of the model, top-down
TreeShape == <<
    [path |-> <<>>,               dirnames |-> <<".github", "node_modules", "src">>],
    [path |-> <<".github">>,      dirnames |-> <<>>],
    [path |-> <<"node_modules">>, dirnames |-> <<>>],
    [path |-> <<"src">>,          dirnames |-> <<"app", "vendor">>],
    [path |-> <<"src", "app">>,   dirnames |-> <<"core">>],
    [path |-> <<"src", "app", "core">>, dirnames |-> <<"lib">>],
    [path |-> <<"src", "app", "core", "lib">>, dirnames |-> <<"mod">>],
    [path |-> <<"src", "app", "core", "lib", "mod">>, dirnames |-> <<"sub">>],
    [path |-> <<"src", "app", "core", "lib", "mod", "sub">>, dirnames |-> <<"leaf">>],
    [path |-> <<"src", "app", "core", "lib", "mod", "sub", "leaf">>, dirnames |-> <<>>],
    [path |-> <<"src", "vendor">>, dirnames |-> <<>>] >>

\* the directories whose files vary over the trees of the model
VaryingDirs == {<<>>, <<"node_modules">>, <<"src">>, <<"src", "vendor">>,
                <<"src", "app", "core", "lib", "mod">>,
                <<"src", "app", "core", "lib", "mod", "sub">>}

Trees ==
    {[i \in 1..Len(TreeShape) |->
        [path |-> TreeShape[i].path, dirnames |-> TreeShape[i].dirnames,
         filenames |-> IF TreeShape[i].path \in VaryingDirs
                       THEN f[TreeShape[i].path] ELSE NoFiles]]
     : f \in [VaryingDirs -> FilePool]}

DirAt(t, path) == t[CHOOSE i \in 1..Len(t) : t[i].path = path]

\* the files of the run that are counted before the limit is reached
TakeAll(n, tot) == n
TakeFiles(n, tot) == IF tot + n >= MAX_FILES_SCAN THEN MAX_FILES_SCAN - tot ELSE n

HasExt(cs, ext) == \E i \in 1..Len(cs) : cs[i].ext = ext

\* counts[ext] = counts.get(ext, 0) + k
AddCount(cs, ext, k) ==
    IF HasExt(cs, ext)
    THEN [i \in 1..Len(cs) |->
            IF cs[i].ext = ext THEN [cs[i] EXCEPT !.n = @ + k] ELSE cs[i]]
    ELSE Append(cs, [ext |-> ext, n |-> k])

\* "for f in filenames": the locals after the runs, and whether line 82
\* returned
RECURSIVE CountFiles(_, _)
CountFiles(runs, acc) ==
    IF runs = <<>> \/ acc.returned THEN acc
    ELSE LET ext == SuffixLower(Head(runs).suffix)
             k == TakeFiles(Head(runs).n, acc.total)
         IN  IF ext \in SOURCE_EXTENSIONS /\ Head(runs).n > 0
             THEN CountFiles(Tail(runs),
                     [counts |-> AddCount(acc.counts, ext, k),
                      total |-> acc.total + k,
                      returned |-> acc.total + k >= MAX_FILES_SCAN])
             ELSE CountFiles(Tail(runs), acc)

\* dirnames[:] = [d for d in dirnames if d not in EXCLUDE_DIRS and not d.startswith(".")]
PruneDirnames(dirnames) == SelectSeq(dirnames, LAMBDA d : ~ExcludedName(d))

InitCount ==
    /\ pc = "walk"
    /\ tree \in Trees
    /\ walk_stack = << <<>> >>
    /\ counts = <<>> /\ total = 0 /\ visited = {}
    /\ descriptors = <<>> /\ aws_config = {} /\ api_files = <<>>
    /\ fn_pos = 0 /\ functions = <<>>
    /\ IdleNorm /\ IdleCluster /\ IdleDomains /\ IdleStack /\ IdleSettings
    /\ IdleMain /\ IdleRender /\ IdleFeatures

\* one pass of "for dirpath, dirnames, filenames in os.walk(root)"
WalkDir ==
    /\ pc = "walk"
    /\ walk_stack # <<>>
    /\ LET rel == Head(walk_stack)
           d == DirAt(tree, rel)
           kept == PruneDirnames(d.dirnames)
           r == CountFiles(d.filenames,
                           [counts |-> counts, total |-> total, returned |-> FALSE])
       IN  /\ visited' = visited \cup {rel}
           /\ IF should_exclude(rel) \/ Len(rel) > MAX_DEPTH
              THEN /\ walk_stack' = Tail(walk_stack)
                   /\ UNCHANGED <<pc, counts, total>>
              ELSE /\ counts' = r.counts
                   /\ total' = r.total
                   /\ walk_stack' = [i \in 1..Len(kept) |-> Append(rel, kept[i])]
                                    \o Tail(walk_stack)
                   /\ pc' = IF r.returned THEN "counted" ELSE pc
    /\ UNCHANGED <<tree, descriptors, aws_config, api_files, fn_pos, functions,
                   normVars, clusterVars, domainVars, stackVars, settingsVars,
                   mainVars, renderVars, featVars>>

\* the walk is over: return counts
WalkDone ==
    /\ pc = "walk"
    /\ walk_stack = <<>>
    /\ pc' = "counted"
    /\ UNCHANGED <<visited, countVars, descriptors, aws_config, api_files,
                   fn_pos, functions, normVars, clusterVars, domainVars, stackVars, settingsVars,
                   mainVars, renderVars, featVars>>

NextCount == WalkDir \/ WalkDone

SpecCount == InitCount /\ [][NextCount]_vars /\ WF_vars(NextCount)

-----------------------------------------------------------------------------
(* Claims about count_source_files *)

RECURSIVE SumCounts(_)
SumCounts(cs) == IF cs = <<>> THEN 0 ELSE Head(cs).n + SumCounts(Tail(cs))

RECURSIVE FilesOf(_, _)
\* the number of files in the runs that satisfy Counted
FilesOf(runs, sourceOnly) ==
    IF runs = <<>> THEN 0
    ELSE (IF sourceOnly /\ SuffixLower(Head(runs).suffix) \notin SOURCE_EXTENSIONS
          THEN 0 ELSE Head(runs).n)
         + FilesOf(Tail(runs), sourceOnly)

RECURSIVE AllFiles(_)
\* the number of files the tree holds
AllFiles(t) ==
    IF t = <<>> THEN 0 ELSE FilesOf(Head(t).filenames, FALSE) + AllFiles(Tail(t))

RECURSIVE CountableFiles(_)
\* the number of source files in directories that are neither excluded nor
\* deeper than MAX_DEPTH
CountableFiles(t) ==
    IF t = <<>> THEN 0
    ELSE (IF should_exclude(Head(t).path) \/ Len(Head(t).path) > MAX_DEPTH
          THEN 0 ELSE FilesOf(Head(t).filenames, TRUE))
         + CountableFiles(Tail(t))

\* C12 as stated: the counts never sum to more than MAX_FILES_SCAN, and on a
\* tree holding more files than MAX_FILES_SCAN the call returns at the limit
\* with a non-empty census.
C12_LimitOnAnyFiles ==
    /\ SumCounts(counts) <= MAX_FILES_SCAN
    /\ (pc = "counted" /\ AllFiles(tree) > MAX_FILES_SCAN) =>
          (total = MAX_FILES_SCAN /\ counts # <<>>)

C12_Bounded ==
    /\ SumCounts(counts) = total
    /\ total <= MAX_FILES_SCAN
    /\ total = MAX_FILES_SCAN => pc = "counted"
    /\ (pc = "counted" /\ CountableFiles(tree) >= MAX_FILES_SCAN) =>
          (total = MAX_FILES_SCAN /\ counts # <<>>)
    /\ (pc = "counted" /\ CountableFiles(tree) < MAX_FILES_SCAN) =>
          total = CountableFiles(tree)

\* C12, amended: count_source_files returns on every tree; the counts sum to
\* the number of source files counted, which never exceeds MAX_FILES_SCAN;
\* once that number reaches MAX_FILES_SCAN the call has returned; and on a
\* tree holding at least MAX_FILES_SCAN source files in directories that are
\* neither excluded nor deeper than MAX_DEPTH the census returned is
\* non-empty and sums to MAX_FILES_SCAN, where on any other tree it counts
\* every such file.
C12_TerminatesBounded == []C12_Bounded /\ <>(pc = "counted")

\* the call returned at the limit, in the middle of a directory's files, on
\* a tree that holds more countable source files than MAX_FILES_SCAN
C12_Witness ==
    /\ pc = "counted"
    /\ CountableFiles(tree) > MAX_FILES_SCAN
    /\ total = MAX_FILES_SCAN
    /\ walk_stack # <<>>
    /\ Len(counts) = 2

-----------------------------------------------------------------------------
(* detect_stack and _detect_framework: the language, framework, build tool  *)
(* and package manager fields.  The runtime and test framework steps read   *)
(* and write no other field and are left out.                               *)

config_signals == <<
    [file |-> "tsconfig.json",    lang |-> "TypeScript",            field |-> "language",   confidence |-> "high"],
    [file |-> "package.json",     lang |-> "JavaScript/TypeScript", field |-> "language",   confidence |-> "high"],
    [file |-> "pyproject.toml",   lang |-> "Python",                field |-> "language",   confidence |-> "high"],
    [file |-> "requirements.txt", lang |-> "Python",                field |-> "language",   confidence |-> "high"],
    [file |-> "setup.py",         lang |-> "Python",                field |-> "language",   confidence |-> "high"],
    [file |-> "Pipfile",          lang |-> "Python",                field |-> "language",   confidence |-> "high"],
    [file |-> "Cargo.toml",       lang |-> "Rust",                  field |-> "language",   confidence |-> "high"],
    [file |-> "go.mod",           lang |-> "Go",                    field |-> "language",   confidence |-> "high"],
    [file |-> "Gemfile",          lang |-> "Ruby",                  field |-> "language",   confidence |-> "high"],
    [file |-> "build.gradle",     lang |-> "Java/Kotlin",           field |-> "language",   confidence |-> "high"],
    [file |-> "build.gradle.kts", lang |-> "Kotlin",                field |-> "language",   confidence |-> "high"],
    [file |-> "pom.xml",          lang |-> "Java",                  field |-> "language",   confidence |-> "high"],
    [file |-> "composer.json",    lang |-> "PHP",                   field |-> "language",   confidence |-> "high"],
    [file |-> "mix.exs",          lang |-> "Elixir",                field |-> "language",   confidence |-> "high"],
    [file |-> "Makefile",         lang |-> None,                    field |-> "build_tool", confidence |-> "medium"],
    [file |-> "CMakeLists.txt",   lang |-> "C/C++",                 field |-> "language",   confidence |-> "high"],
    [file |-> "project.godot",    lang |-> "GDScript",              field |-> "language",   confidence |-> "high"] >>

ext_to_lang == <<
    <<".py", "Python">>, <<".ts", "TypeScript">>, <<".tsx", "TypeScript">>,
    <<".js", "JavaScript">>, <<".jsx", "JavaScript">>, <<".go", "Go">>,
    <<".rs", "Rust">>, <<".java", "Java">>, <<".rb", "Ruby">>,
    <<".gd", "GDScript">>, <<".cs", "C#">>, <<".cpp", "C++">>, <<".c", "C">>,
    <<".swift", "Swift">>, <<".kt", "Kotlin">>, <<".scala", "Scala">>,
    <<".php", "PHP">> >>

js_frameworks == <<
    <<"next", "Next.js">>, <<"nuxt", "Nuxt">>, <<"@angular/core", "Angular">>,
    <<"svelte", "SvelteKit">>, <<"vue", "Vue">>, <<"react", "React">>,
    <<"express", "Express">>, <<"fastify", "Fastify">>, <<"koa", "Koa">>,
    <<"hono", "Hono">>, <<"astro", "Astro">>, <<"gatsby", "Gatsby">>,
    <<"remix", "Remix">>, <<"electron", "Electron">> >>

py_frameworks == <<
    <<"fastapi", "FastAPI">>, <<"django", "Django">>, <<"flask", "Flask">>,
    <<"starlette", "Starlette">>, <<"tornado", "Tornado">>,
    <<"aiohttp", "aiohttp">>, <<"sanic", "Sanic">> >>

rust_frameworks == <<
    <<"actix-web", "Actix Web">>, <<"axum", "Axum">>, <<"rocket", "Rocket">>,
    <<"warp", "Warp">>, <<"bevy", "Bevy">>, <<"tauri", "Tauri">> >>

pm_signals == <<
    <<"pnpm-lock.yaml", "pnpm">>, <<"yarn.lock", "yarn">>,
    <<"package-lock.json", "npm">>, <<"bun.lockb", "bun">>, <<"uv.lock", "uv">>,
    <<"Pipfile.lock", "pipenv">>, <<"poetry.lock", "poetry">>,
    <<"Cargo.lock", "cargo">>, <<"go.sum", "go">>, <<"Gemfile.lock", "bundler">> >>

\* the value of the first pair of the table whose key is in keys, or dflt
FirstHit(table, keys, dflt) ==
    LET hits == {i \in 1..Len(table) : table[i][1] \in keys}
    IN  IF hits = {} THEN dflt
        ELSE table[CHOOSE i \in hits : \A j \in hits : i <= j][2]

\* max(counts, key=counts.get): the first key, in insertion order, with the
\* largest count
PrimaryExt(cs) ==
    cs[CHOOSE i \in 1..Len(cs) :
          /\ \A j \in 1..Len(cs) : cs[j].n <= cs[i].n
          /\ \A j \in 1..(i - 1) : cs[j].n < cs[i].n].ext

\* the roots of the model: the files that exist there, the dependencies of
\* the package.json (and whether it parses), the package names
\* that occur in the text of pyproject.toml / requirements.txt / Cargo.toml,
\* and what count_source_files returns
RootFilePool == {"tsconfig.json", "package.json", "pyproject.toml",
                 "Cargo.toml", "Makefile", "project.godot", "yarn.lock"}
DepsPool == {{}, {"next", "react"}, {"express", "jest"}}
WordsPool == {{}, {"django", "flask", "axum"}}
CensusPool == {<<>>,
               <<[ext |-> ".py", n |-> 2], [ext |-> ".ts", n |-> 2]>>,
               <<[ext |-> ".ex", n |-> 1], [ext |-> ".gd", n |-> 3]>>}

Projects ==
    {[files |-> fs, parses |-> ok, deps |-> d, words |-> w, census |-> c] :
        fs \in SUBSET RootFilePool, ok \in BOOLEAN, d \in DepsPool,
        w \in WordsPool, c \in CensusPool}

\* the guard that lets every marker file set the language
LanguageAlwaysUnset(st) == TRUE
\* not stack["language"]
LanguageUnset(st) == st.language = None

\* the body of "for filename, lang, field, confidence in config_signals"
ApplySignal(st, sig, files) ==
    IF sig.file \notin files THEN st
    ELSE IF sig.lang # None /\ LanguageUnset(st)
         THEN [st EXCEPT !.language = sig.lang, !.conf_language = sig.confidence]
    ELSE IF sig.field = "build_tool" /\ st.build_tool = None
         THEN [st EXCEPT !.build_tool = "Makefile"]
    ELSE st

\* lines 130-143: the language of the most frequent extension
CensusLanguage(st, cs) ==
    IF st.language = None /\ cs # <<>>
    THEN [st EXCEPT !.language = FirstHit(ext_to_lang, {PrimaryExt(cs)}, PrimaryExt(cs)),
                    !.conf_language = "medium"]
    ELSE st

StartsWithPython(language) == language = "Python"

\* _detect_framework: the framework found, or None
detect_framework(p, language) ==
    LET js == IF "package.json" \in p.files /\ p.parses
              THEN FirstHit(js_frameworks, p.deps, None) ELSE None
        py == IF "pyproject.toml" \in p.files /\ StartsWithPython(language)
              THEN FirstHit(py_frameworks, p.words, js) ELSE js
        req == IF py = None /\ "requirements.txt" \in p.files
                  /\ StartsWithPython(language)
               THEN FirstHit(SubSeq(py_frameworks, 1, 3), p.words, py) ELSE py
        rust == IF "Cargo.toml" \in p.files /\ language = "Rust"
                THEN FirstHit(rust_frameworks, p.words, req) ELSE req
    IN  rust

InitStack ==
    /\ pc = "config_signals"
    /\ project \in Projects
    /\ signal_pos = 0
    /\ stack = [language |-> None, framework |-> None, build_tool |-> None,
                package_manager |-> None, conf_language |-> None,
                conf_framework |-> None, conf_package_manager |-> None]
    /\ IdleNorm /\ IdleCluster /\ IdleDomains /\ IdleButStack

ConfigSignal ==
    /\ pc = "config_signals"
    /\ signal_pos < Len(config_signals)
    /\ stack' = ApplySignal(stack, config_signals[signal_pos + 1], project.files)
    /\ signal_pos' = signal_pos + 1
    /\ UNCHANGED <<pc, project, restStack>>

RefineLanguage ==
    /\ pc = "config_signals"
    /\ signal_pos = Len(config_signals)
    /\ stack' = CensusLanguage(stack, project.census)
    /\ pc' = "framework"
    /\ UNCHANGED <<project, signal_pos, restStack>>

DetectFramework ==
    /\ pc = "framework"
    /\ LET fw == detect_framework(project, stack.language)
       IN  stack' = IF fw = None THEN stack
                    ELSE [stack EXCEPT !.framework = fw, !.conf_framework = "high"]
    /\ pc' = "package_manager"
    /\ UNCHANGED <<project, signal_pos, restStack>>

PackageManager ==
    /\ pc = "package_manager"
    /\ LET pm == FirstHit(pm_signals, project.files, None)
       IN  stack' = IF pm = None THEN stack
                    ELSE [stack EXCEPT !.package_manager = pm,
                                       !.conf_package_manager = "high"]
    /\ pc' = "stack_detected"
    /\ UNCHANGED <<project, signal_pos, restStack>>

NextStack == ConfigSignal \/ RefineLanguage \/ DetectFramework \/ PackageManager

SpecStack == InitStack /\ [][NextStack]_vars

-----------------------------------------------------------------------------
(* Claims about detect_stack *)

\* the positions of the signal table whose file exists and names a language
LanguageMarkers ==
    {i \in 1..Len(config_signals) :
        config_signals[i].file \in project.files /\ config_signals[i].lang # None}

FirstMarker == CHOOSE i \in LanguageMarkers : \A j \in LanguageMarkers : i <= j

\* C14: the language is set by the first marker file of the signal table
\* that exists at the root, at high confidence, and no later marker and no
\* census changes it; with tsconfig.json and a package.json that declares
\* next, detect_stack returns TypeScript and Next.js, both at confidence high.
C14_FirstMarkerWins ==
    /\ LanguageMarkers # {} =>
          IF signal_pos < FirstMarker /\ pc = "config_signals"
          THEN stack.language = None
          ELSE /\ stack.language = config_signals[FirstMarker].lang
               /\ stack.conf_language = "high"
    /\ (pc = "stack_detected"
        /\ {"tsconfig.json", "package.json"} \subseteq project.files
        /\ project.parses /\ "next" \in project.deps) =>
          /\ stack.language = "TypeScript" /\ stack.conf_language = "high"
          /\ stack.framework = "Next.js" /\ stack.conf_framework = "high"

\* detect_stack returned for a root with tsconfig.json, a package.json that
\* declares next, a later marker and a non-empty census
C14_Witness ==
    /\ pc = "stack_detected"
    /\ {"tsconfig.json", "package.json", "Cargo.toml"} \subseteq project.files
    /\ project.parses /\ "next" \in project.deps
    /\ project.census # <<>>
    /\ stack.framework = "Next.js"

-----------------------------------------------------------------------------
(* settings.py: get_setting and the module-level cache *)

MaxLines == 3

\* The lines of STACK.md the parsers tell apart: H2 headings, "- key: value"
\* bullets and "key: value" lines without the dash
Heading(title) == [kind |-> "heading", key |-> title, value |-> ""]
Bullet(k, v) == [kind |-> "bullet", key |-> k, value |-> v]
PlainLine(k, v) == [kind |-> "plain", key |-> k, value |-> v]

LinePool == {Heading("Settings"), Heading("Stack"),
             Bullet("feature_tracking", "yes"), Bullet("feature_tracking", "no"),
             Bullet("profile", "Formal"), Bullet("profile", "custom"),
             PlainLine("Profile", "discovery")}

NoFile == [exists |-> FALSE, lines |-> <<>>]
File(lines) == [exists |-> TRUE, lines |-> lines]

StackFiles ==
    {NoFile} \cup {File(l) : l \in UNION {[1..n -> LinePool] : n \in 0..MaxLines}}

NoEntries == [k \in {} |-> ""]
SetKey(d, k, v) == [x \in DOMAIN d \cup {k} |-> IF x = k THEN v ELSE d[x]]

\* profiles.conf: missing, the shipped presets, or presets that turn feature
\* tracking on for discovery and say nothing for formal
NoPresets == [exists |-> FALSE, presets |-> NoEntries]
ConfFiles == {
    NoPresets,
    [exists |-> TRUE,
     presets |-> [p \in {"discovery", "formal"} |->
                    SetKey(NoEntries, "feature_tracking",
                           IF p = "formal" THEN "yes" ELSE "no")]],
    [exists |-> TRUE,
     presets |-> [p \in {"discovery"} |-> SetKey(NoEntries, "feature_tracking", "yes")]] }

\* str.lower(), and the case-insensitive key match of the whole-file search
Lower(x) == CASE x = "Formal" -> "formal" [] x = "Profile" -> "profile" [] OTHER -> x

\* lines 51-69: the entries of the first "## Settings" section
RECURSIVE SectionFrom(_, _, _)
SectionFrom(lines, in_section, acc) ==
    IF lines = <<>> THEN acc
    ELSE LET l == Head(lines)
         IN  IF ~in_section
             THEN SectionFrom(Tail(lines), l = Heading("Settings"), acc)
             ELSE IF l.kind = "heading" THEN acc
             ELSE IF l.kind = "bullet" /\ l.value # ""
                  THEN SectionFrom(Tail(lines), TRUE, SetKey(acc, l.key, l.value))
             ELSE SectionFrom(Tail(lines), TRUE, acc)

ParseSection(file) == SectionFrom(file.lines, FALSE, NoEntries)

\* a search that never finds the key
search_nothing(file, key) == None
\* _search_whole_file: the value of the first line that carries the key
search_whole_file(file, key) ==
    LET hits == {i \in 1..Len(file.lines) :
                    /\ file.lines[i].kind \in {"bullet", "plain"}
                    /\ Lower(file.lines[i].key) = Lower(key)}
    IN  IF ~file.exists \/ hits = {} THEN None
        ELSE file.lines[CHOOSE i \in hits : \A j \in hits : i <= j].value

EmptyCache == [has_settings |-> FALSE, settings |-> NoEntries,
               has_presets |-> FALSE, presets |-> NoEntries]

\* a file that is cached whether or not it exists
CachedAlways(file) == TRUE
\* lines 40-41, 112-113: a missing file is answered with {} and not cached
Cached(file) == file.exists

\* _extract_settings_section: the dict returned and the cache afterwards
extract_settings_section(file, c) ==
    IF c.has_settings THEN [val |-> c.settings, cache |-> c]
    ELSE IF ~Cached(file) THEN [val |-> NoEntries, cache |-> c]
    ELSE [val |-> ParseSection(file),
          cache |-> [c EXCEPT !.has_settings = TRUE, !.settings = ParseSection(file)]]

\* _load_profile_presets
load_profile_presets(conf, c) ==
    IF c.has_presets THEN [val |-> c.presets, cache |-> c]
    ELSE IF ~Cached(conf) THEN [val |-> NoEntries, cache |-> c]
    ELSE [val |-> conf.presets,
          cache |-> [c EXCEPT !.has_presets = TRUE, !.presets = conf.presets]]

ProfileNames == {"discovery", "formal"}

\* the profile named by the section entries, else by the whole file, else
\* inferred from the spec/ directory
ProfileFrom(section, file, spec_dir) ==
    IF "profile" \in DOMAIN section /\ Lower(section["profile"]) \in ProfileNames
    THEN Lower(section["profile"])
    ELSE IF Lower(search_whole_file(file, "Profile")) \in ProfileNames
         THEN Lower(search_whole_file(file, "Profile"))
    ELSE IF spec_dir THEN "formal" ELSE "discovery"

\* _resolve_profile
resolve_profile(files, c) ==
    LET s == extract_settings_section(files.stack_md, c)
    IN  [val |-> ProfileFrom(s.val, files.stack_md, files.spec_dir),
         cache |-> s.cache]

\* get_setting: the value returned and the cache afterwards
get_setting(files, c, key, default) ==
    IF key = "profile" THEN resolve_profile(files, c)
    ELSE LET s == extract_settings_section(files.stack_md, c)
             whole == IF DOMAIN s.val = {}
                      THEN search_whole_file(files.stack_md, key) ELSE None
             p == resolve_profile(files, s.cache)
             pr == load_profile_presets(files.conf, p.cache)
         IN  IF key \in DOMAIN s.val THEN [val |-> s.val[key], cache |-> s.cache]
             ELSE IF whole # None THEN [val |-> whole, cache |-> s.cache]
             ELSE IF p.val \in DOMAIN pr.val /\ key \in DOMAIN pr.val[p.val]
                  THEN [val |-> pr.val[p.val][key], cache |-> pr.cache]
             ELSE [val |-> default, cache |-> pr.cache]

SettingsFiles ==
    {[stack_md |-> f, conf |-> c, spec_dir |-> d] :
        f \in StackFiles, c \in ConfFiles, d \in BOOLEAN}

\* what STACK.md is rewritten to between two calls
StackEdits == {NoFile,
               File(<<Heading("Settings"), Bullet("feature_tracking", "yes")>>),
               File(<<PlainLine("Profile", "discovery")>>)}

InitSettings ==
    /\ pc = "first_call"
    /\ settings_files \in SettingsFiles
    /\ cache = EmptyCache
    /\ read_at = <<>> /\ results = <<>>
    /\ IdleNorm /\ IdleCluster /\ IdleDomains /\ IdleButSettings

\* get_setting(root, "feature_tracking", "no"), as main calls it
CallGetSetting ==
    /\ pc \in {"first_call", "second_call"}
    /\ LET r == get_setting(settings_files, cache, "feature_tracking", "no")
       IN  /\ results' = Append(results, r.val)
           /\ cache' = r.cache
    /\ read_at' = Append(read_at, settings_files)
    /\ pc' = IF pc = "first_call" THEN "between_calls" ELSE "resolved"
    /\ UNCHANGED <<settings_files, restSettings>>

\* STACK.md is written, rewritten or removed
EditStackMd ==
    /\ pc = "between_calls"
    /\ \E f \in StackEdits : settings_files' = [settings_files EXCEPT !.stack_md = f]
    /\ pc' = "second_call"
    /\ UNCHANGED <<cache, read_at, results, restSettings>>

\* profiles.conf is written, rewritten or removed
EditProfilesConf ==
    /\ pc = "between_calls"
    /\ \E c \in ConfFiles : settings_files' = [settings_files EXCEPT !.conf = c]
    /\ pc' = "second_call"
    /\ UNCHANGED <<cache, read_at, results, restSettings>>

NextSettings == CallGetSetting \/ EditStackMd \/ EditProfilesConf

SpecSettings == InitSettings /\ [][NextSettings]_vars

-----------------------------------------------------------------------------
(* Claims about the settings cache *)

\* The documented resolution of a key from a Settings section, the file the
\* whole-file search reads, the presets and the spec/ directory
Resolution(section, file, presets, spec_dir, key, default) ==
    LET profile == ProfileFrom(section, file, spec_dir)
    IN  IF key \in DOMAIN section THEN section[key]
        ELSE IF DOMAIN section = {} /\ search_whole_file(file, key) # None
             THEN search_whole_file(file, key)
        ELSE IF profile \in DOMAIN presets /\ key \in DOMAIN presets[profile]
             THEN presets[profile][key]
        ELSE default

\* the resolution from one state of the files alone
FromFiles(files) ==
    Resolution(ParseSection(files.stack_md), files.stack_md, files.conf.presets,
               files.spec_dir, "feature_tracking", "no")

\* the call on these files gets as far as the presets
ReachesPresets(section, file) ==
    /\ "feature_tracking" \notin DOMAIN section
    /\ ~(DOMAIN section = {} /\ search_whole_file(file, "feature_tracking") # None)

\* C19 as stated: every call resolves feature_tracking from the files as
\* they are when it is made.
C19_NoStateAcrossCalls ==
    \A i \in 1..Len(results) : results[i] = FromFiles(read_at[i])

\* C19, amended: the first call of a process resolves from the files as they
\* are; a second call in the same process takes the Settings section from
\* the STACK.md the first call read if that file existed then, and the
\* presets from the profiles.conf the first call read if the first call got
\* as far as the presets and that file existed then; only what is left (the
\* whole-file search, the spec/ directory, a file missing at the first call)
\* is resolved from the current files.
C19_CachedAcrossCalls ==
    /\ Len(results) >= 1 => results[1] = FromFiles(read_at[1])
    /\ Len(results) = 2 =>
          LET first == read_at[1]
              now == read_at[2]
              section == IF first.stack_md.exists THEN ParseSection(first.stack_md)
                         ELSE ParseSection(now.stack_md)
              presets == IF first.conf.exists
                            /\ ReachesPresets(ParseSection(first.stack_md), first.stack_md)
                         THEN first.conf.presets ELSE now.conf.presets
          IN  results[2] = Resolution(section, now.stack_md, presets, now.spec_dir,
                                      "feature_tracking", "no")

\* the second call returned the value of the settings section it had cached,
\* which the current STACK.md no longer gives
C19_Witness ==
    /\ pc = "resolved"
    /\ read_at[1].stack_md.exists
    /\ read_at[2] # read_at[1]
    /\ results[2] = FromFiles(read_at[1])
    /\ results[2] # FromFiles(read_at[2])

-----------------------------------------------------------------------------
(* cluster_features and detect_domains as generate_report calls them *)

RECURSIVE ClusterLoop(_, _)
ClusterLoop(its, map) ==
    IF its = <<>> THEN map ELSE ClusterLoop(Tail(its), LoopBody(map, Head(its)))

cluster_features(ui, fns) ==
    LET collected == CollectedItems(ui, fns)
    IN  IF collected = <<>> THEN <<>>
        ELSE BuiltOutput(ClusterLoop(SortItems(collected), <<>>))

detect_domains(r, sps, cs, patterns) ==
    LET s1 == SubProjectLoop(sps, cs, <<>>, {})
        d2 == IF WantsInfraDomain(patterns)
              THEN Append(s1[1], InfrastructureDomain(patterns)) ELSE s1[1]
        orphans == SelectSeq(cs, LAMBDA c : c.name \notin s1[2])
        s3 == IF orphans # <<>> /\ d2 # <<>> THEN OrphanLoop(orphans, d2, s1[2])
              ELSE <<d2, s1[2]>>
        still == StillOrphan(cs, s3[1], s3[2])
        d4 == IF still # <<>> THEN Append(s3[1], UncategorizedDomain(still)) ELSE s3[1]
    IN  IF sps = <<>> /\ d4 = <<>> THEN Append(d4, RootDomain(r, cs, patterns)) ELSE d4

-----------------------------------------------------------------------------
(* generate_report and main *)

NoStack ==
    [language |-> None, framework |-> None, build_tool |-> None,
     package_manager |-> None, conf_language |-> None,
     conf_framework |-> None, conf_package_manager |-> None]

\* what detect_stack returns for the roots of RootFacts: no config file;
\* tsconfig.json, package.json with next, yarn.lock; package.json and host.json
RootStack(r) ==
    IF ~r.marker THEN NoStack
    ELSE IF r.host_json
         THEN [NoStack EXCEPT !.language = "JavaScript/TypeScript",
                              !.conf_language = "high"]
    ELSE [NoStack EXCEPT !.language = "TypeScript", !.conf_language = "high",
                         !.framework = "Next.js", !.conf_framework = "high",
                         !.package_manager = "yarn", !.conf_package_manager = "high"]

\* the dict detect_sub_projects appends, with its language
SubProjectOf(name, language, framework) ==
    [name |-> name, path |-> <<name, "">>, language |-> language,
     framework |-> framework, has_tests |-> FALSE]

\* what detect_sub_projects can return: children in sorted order
ReportSubProjects == <<
    SubProjectOf("api", "JavaScript", "Express"),
    SubProjectOf("app", "TypeScript", "React Native"),
    SubProjectOf("lib", "Python", None),
    SubProjectOf("web", "TypeScript", "React") >>

\* the package manager of the lockfile below a sub-project
LockfileOf(name) == IF name = "web" THEN "yarn" ELSE None

\* what discover_features and detect_api_specs find
FeaturePool == {
    [features |-> <<>>, api_spec |-> None],
    [features |-> <<[name |-> "web", confidence |-> "medium"]>>,
     api_spec |-> "docs/openapi.yaml"] }

\* what detect_ui_components and detect_serverless_functions find
CandidatePool == {
    [ui |-> <<>>, fns |-> <<>>],
    [ui |-> <<UiPool[3], UiPool[7]>>,
     fns |-> <<[name |-> CheckoutApi, type_hint |-> serverless_type_hint(CheckoutApi),
                path |-> <<"api", "checkoutApi">>]>>] }

\* the repository below a --root that is a directory
Repo(r, sps, f, c, i) ==
    [root |-> r, stack |-> RootStack(r), sub_projects |-> sps,
     features |-> f.features, api_spec |-> f.api_spec, ui |-> c.ui, fns |-> c.fns,
     infra |-> i]

\* a --root that is not a directory holds nothing
NoRepo ==
    [root |-> CHOOSE r \in RootFacts : ~r.marker, stack |-> NoStack, sub_projects |-> <<>>, features |-> <<>>,
     api_spec |-> None, ui |-> <<>>, fns |-> <<>>, infra |-> <<>>]

\* {sp["language"] for sp in sub_projects if sp["language"]}
SubProjectLanguages(sps) ==
    {sps[i].language : i \in {j \in 1..Len(sps) : sps[j].language # None}}

\* f"Multi ({', '.join(frameworks)})"
MultiName(frameworks) ==
    CASE frameworks = <<"Express", "React Native">> -> "Multi (Express, React Native)"
      [] frameworks = <<"Express", "React">> -> "Multi (Express, React)"
      [] frameworks = <<"React Native", "React">> -> "Multi (React Native, React)"
      [] frameworks = <<"Express", "React Native", "React">>
            -> "Multi (Express, React Native, React)"
      [] OTHER -> "Multi"

\* lines 1283-1290; langs is a list made from a set, so langs[0] (first) is
\* whichever element the iteration order of the set puts first
BackfillLanguage(st, sps, first) ==
    LET langs == SubProjectLanguages(sps)
    IN  IF st.language # None \/ sps = <<>> \/ langs = {} THEN st
        ELSE IF Cardinality(langs) = 1
             THEN [st EXCEPT !.language = CHOOSE l \in langs : TRUE,
                             !.conf_language = "medium"]
        ELSE [st EXCEPT !.language = first, !.conf_language = "low"]

\* lines 1292-1299
BackfillFramework(st, sps) ==
    LET frameworks == SelectSeq([i \in 1..Len(sps) |-> sps[i].framework],
                                LAMBDA f : f # None)
    IN  IF st.framework # None \/ sps = <<>> \/ frameworks = <<>> THEN st
        ELSE [st EXCEPT !.framework = IF Len(frameworks) = 1 THEN frameworks[1]
                                      ELSE MultiName(frameworks),
                        !.conf_framework = "medium"]

\* lines 1301-1313
BackfillPackageManager(st, sps) ==
    LET with == {i \in 1..Len(sps) : LockfileOf(sps[i].name) # None}
    IN  IF st.package_manager # None \/ with = {} THEN st
        ELSE [st EXCEPT !.package_manager =
                            LockfileOf(sps[CHOOSE i \in with : \A j \in with : i <= j].name),
                        !.conf_package_manager = "medium"]

\* a version string no generate_report of this repository writes
OlderVersion == "1.0.0"
\* line 1339
ReportVersion == "2.0.0"

FeatureKeys == {"serverless_functions", "ui_components", "feature_clusters",
                "api_spec_path"}

\* the four keys are added whatever the setting
AddsFeatureKeysAlways(ft) == TRUE
\* line 1354: if feature_tracking
AddsFeatureKeys(ft) == ft

\* generate_report, first being the element langs[0] turns out to be
generate_report(rp, profile, ft, first) ==
    LET st == BackfillPackageManager(
                  BackfillFramework(
                      BackfillLanguage(rp.stack, rp.sub_projects, first),
                      rp.sub_projects),
                  rp.sub_projects)
        fcs == IF ft THEN cluster_features(rp.ui, rp.fns) ELSE <<>>
        base == [version |-> ReportVersion,
                 generated |-> "now",
                 profile |-> profile,
                 project_root |-> "root",
                 stack |-> st,
                 entry_points |-> <<>>,
                 architecture |-> <<>>,
                 readme_description |-> None,
                 test_patterns |-> <<>>,
                 features |-> IF ft THEN rp.features ELSE <<>>,
                 sub_projects |-> rp.sub_projects,
                 infra_patterns |-> rp.infra,
                 domains |-> detect_domains(rp.root, rp.sub_projects, fcs, rp.infra)]
        extra == [serverless_functions |-> rp.fns,
                  ui_components |-> rp.ui,
                  feature_clusters |-> fcs,
                  api_spec_path |-> rp.api_spec]
    IN  IF AddsFeatureKeys(ft) THEN base @@ extra ELSE base

\* the values langs[0] can take
FirstLanguages(rp) ==
    IF SubProjectLanguages(rp.sub_projects) = {} THEN {None}
    ELSE SubProjectLanguages(rp.sub_projects)

\* the STACK.md files of the roots main is run on
MainStackFiles == {NoFile,
                   File(<<Heading("Settings"), Bullet("feature_tracking", "yes")>>),
                   File(<<Heading("Settings"), Bullet("feature_tracking", "no"),
                          Bullet("profile", "Formal")>>),
                   File(<<PlainLine("Profile", "discovery")>>)}

NothingOnDisk == [stack_md |-> NoFile, conf |-> NoPresets, spec_dir |-> FALSE]

NoOutput == [parent |-> FALSE, written |-> FALSE, content |-> <<>>]

InitMain ==
    /\ pc = "check_root"
    /\ args \in [root_is_dir : BOOLEAN, profile : {"discovery", "formal"}]
    /\ IF args.root_is_dir
       THEN /\ \E r \in RootFacts, sps \in SubLists(ReportSubProjects, MaxSubProjects),
                  f \in FeaturePool, c \in CandidatePool,
                  i \in {<<>>, SubSeq(InfraPool, 1, 2)} :
                    repo = Repo(r, sps, f, c, i)
            /\ settings_files \in {[stack_md |-> f, conf |-> c, spec_dir |-> d] :
                                     f \in MainStackFiles,
                                     c \in {x \in ConfFiles : Cardinality(DOMAIN x.presets) # 1},
                                     d \in BOOLEAN}
       ELSE repo = NoRepo /\ settings_files = NothingOnDisk
    /\ cache = EmptyCache /\ read_at = <<>> /\ results = <<>>
    /\ feature_tracking = FALSE
    /\ report = <<>>
    /\ exit_code = -1
    /\ output_file \in {NoOutput, [NoOutput EXCEPT !.parent = TRUE]}
    /\ IdleNorm /\ IdleCluster /\ IdleDomains /\ IdleButMain

\* a check that lets every --root through
RootAlwaysOk(a) == TRUE
\* root.is_dir()
RootOk(a) == a.root_is_dir

\* lines 1372-1375
CheckRoot ==
    /\ pc = "check_root"
    /\ IF RootOk(args)
       THEN pc' = "get_setting" /\ UNCHANGED exit_code
       ELSE pc' = "exited" /\ exit_code' = 1
    /\ UNCHANGED <<args, repo, feature_tracking, report, output_file,
                   settingsVars, restMain>>

\* line 1380
ResolveFeatureTracking ==
    /\ pc = "get_setting"
    /\ LET r == get_setting(settings_files, cache, "feature_tracking", "no")
       IN  /\ feature_tracking' = (r.val = "yes")
           /\ cache' = r.cache
           /\ results' = Append(results, r.val)
    /\ read_at' = Append(read_at, settings_files)
    /\ pc' = "generate_report"
    /\ UNCHANGED <<args, repo, report, exit_code, output_file, settings_files,
                   restMain>>

\* line 1382
GenerateReport ==
    /\ pc = "generate_report"
    /\ \E first \in FirstLanguages(repo) :
          report' = generate_report(repo, args.profile, feature_tracking, first)
    /\ pc' = "write_output"
    /\ UNCHANGED <<args, repo, feature_tracking, exit_code, output_file,
                   settingsVars, restMain>>

\* lines 1384-1386 and the return
WriteOutput ==
    /\ pc = "write_output"
    /\ output_file' = [parent |-> TRUE, written |-> TRUE, content |-> report]
    /\ exit_code' = 0
    /\ pc' = "exited"
    /\ UNCHANGED <<args, repo, feature_tracking, report, settingsVars, restMain>>

NextMain == CheckRoot \/ ResolveFeatureTracking \/ GenerateReport \/ WriteOutput

SpecMain == InitMain /\ [][NextMain]_vars

-----------------------------------------------------------------------------
(* Claims about generate_report and main *)

Reported == pc \in {"write_output", "exited"} /\ report # <<>>

\* the language of the first sub-project, in list order, that has one
FirstFoundLanguage(sps) ==
    sps[CHOOSE i \in 1..Len(sps) :
           /\ sps[i].language # None
           /\ \A j \in 1..(i - 1) : sps[j].language = None].language

\* C15: when the root has no language, sub-projects of several distinct
\* languages give the root the language of the first sub-project in list
\* order, at low confidence, and sub-projects of one language give it that
\* language at medium confidence.
C15_FirstSubProjectLanguage ==
    (Reported /\ repo.stack.language = None) =>
        /\ Cardinality(SubProjectLanguages(repo.sub_projects)) >= 2 =>
              /\ report.stack.language = FirstFoundLanguage(repo.sub_projects)
              /\ report.stack.conf_language = "low"
        /\ Cardinality(SubProjectLanguages(repo.sub_projects)) = 1 =>
              /\ report.stack.language = repo.sub_projects[1].language
              /\ report.stack.conf_language = "medium"

\* the feature-level detectors ran: the report carries their results
FeatureDetectionRan == FeatureKeys \subseteq DOMAIN report

\* C16: feature-level detection runs if and only if --profile is formal.
C16_ProfileFlagDecides ==
    Reported => (FeatureDetectionRan <=> args.profile = "formal")

AlwaysKeys == {"version", "stack", "entry_points", "architecture",
               "readme_description", "test_patterns", "features",
               "sub_projects", "infra_patterns", "domains"}

\* C17: the report holds the four feature keys if and only if feature
\* tracking is active, and none of them otherwise; without feature tracking
\* features is empty and no domain lists a cluster; the ten fixed keys are
\* always there.
C17_ReportKeys ==
    Reported =>
        /\ AlwaysKeys \subseteq DOMAIN report
        /\ IF feature_tracking THEN FeatureKeys \subseteq DOMAIN report
           ELSE /\ FeatureKeys \cap DOMAIN report = {}
                /\ report.features = <<>>
                /\ \A i \in 1..Len(report.domains) : report.domains[i].clusters = <<>>

\* a report without feature tracking was built for a repository in which
\* the feature detectors would have found clusters, features and sub-projects
C17_Witness ==
    /\ Reported /\ ~feature_tracking
    /\ repo.ui # <<>> /\ repo.features # <<>> /\ repo.sub_projects # <<>>
    /\ Len(report.domains) >= 2

\* a report with feature tracking was built, with clusters listed in a domain
C17_WitnessActive ==
    /\ Reported /\ feature_tracking
    /\ \E i \in 1..Len(report.domains) : report.domains[i].clusters # <<>>

C18_State ==
    /\ ~args.root_is_dir =>
          /\ read_at = <<>> /\ results = <<>> /\ report = <<>>
          /\ ~output_file.written
          /\ pc \in {"check_root", "exited"}
          /\ pc = "exited" => exit_code = 1
    /\ (args.root_is_dir /\ pc = "exited") =>
          /\ exit_code = 0
          /\ output_file.written /\ output_file.parent
          /\ output_file.content = report /\ report # <<>>
    /\ pc # "exited" => exit_code = -1 /\ ~output_file.written

\* C18: a --root that is not a directory ends the run with exit code 1
\* before any settings lookup, before any report is built and with the
\* output file and its parent directory left as they were; a --root that is
\* a directory ends it with exit code 0, the report written to --output and
\* the parent directory present.
C18_ExitCodes ==
    /\ []C18_State
    /\ [][~args.root_is_dir => output_file' = output_file]_vars

\* main has exited on a --root that is not a directory, the parent of
\* --output being absent
C18_Witness ==
    pc = "exited" /\ ~args.root_is_dir /\ exit_code = 1 /\ ~output_file.parent

\* main has exited after writing the report below a parent it had to create
C18_WitnessWritten ==
    /\ pc = "exited" /\ args.root_is_dir /\ exit_code = 0
    /\ output_file.written /\ Len(output_file.content.domains) >= 1

-----------------------------------------------------------------------------
(* render_proposals.py: main *)

\* line 415: the version the renderer expects
ExpectedVersion == "2.0.0"

\* line 414: report.get("version", "1.0.0")
report_version(rep) ==
    IF "version" \in DOMAIN rep THEN rep.version ELSE "1.0.0"

\* the report without its version key
WithoutVersion(rep) == [k \in DOMAIN rep \ {"version"} |-> rep[k]]

CoreProposals == {"STACK.md", "CONTEXT_PACK.md", "OVERVIEW.md"}

\* the report file the renderer is pointed at: missing, as an earlier
\* discovery run wrote it, or written by an older or foreign producer
InitRender ==
    /\ pc = "load_report"
    /\ args \in [root_is_dir : {TRUE}, profile : {"discovery", "formal"}]
    /\ \E r \in RootFacts, sps \in SubLists(ReportSubProjects, MaxSubProjects),
          f \in FeaturePool, c \in CandidatePool :
          repo = Repo(r, sps, f, c, <<>>)
    /\ \E ft \in BOOLEAN, first \in FirstLanguages(repo) :
          LET fresh == generate_report(repo, args.profile, ft, first)
          IN  output_file \in
                  {NoOutput,
                   [parent |-> TRUE, written |-> TRUE, content |-> fresh],
                   [parent |-> TRUE, written |-> TRUE,
                    content |-> [fresh EXCEPT !.version = OlderVersion]],
                   [parent |-> TRUE, written |-> TRUE,
                    content |-> WithoutVersion(fresh)]}
    /\ settings_files \in {[stack_md |-> f, conf |-> NoPresets, spec_dir |-> FALSE] :
                             f \in MainStackFiles}
    /\ cache = EmptyCache /\ read_at = <<>> /\ results = <<>>
    /\ feature_tracking = FALSE
    /\ report = <<>>
    /\ exit_code = -1
    /\ warned = FALSE /\ rendered = {}
    /\ IdleNorm /\ IdleCluster /\ IdleDomains /\ IdleButRender

\* lines 404-411
LoadReport ==
    /\ pc = "load_report"
    /\ IF output_file.written
       THEN /\ report' = output_file.content
            /\ pc' = "version_check"
            /\ UNCHANGED exit_code
       ELSE /\ exit_code' = 1
            /\ pc' = "exited"
            /\ UNCHANGED report
    /\ UNCHANGED <<args, repo, feature_tracking, output_file, settingsVars,
                   renderVars, restRender>>

\* lines 414-417: the warning is printed and the run goes on
VersionCheck ==
    /\ pc = "version_check"
    /\ warned' = (report_version(report) # ExpectedVersion)
    /\ pc' = "render_stack"
    /\ UNCHANGED <<rendered, mainVars, settingsVars, restRender>>

\* lines 424-426
RenderStack ==
    /\ pc = "render_stack"
    /\ rendered' = rendered \cup {"STACK.md"}
    /\ pc' = "render_context_pack"
    /\ UNCHANGED <<warned, mainVars, settingsVars, restRender>>

\* lines 428-430
RenderContextPack ==
    /\ pc = "render_context_pack"
    /\ rendered' = rendered \cup {"CONTEXT_PACK.md"}
    /\ pc' = "render_overview"
    /\ UNCHANGED <<warned, mainVars, settingsVars, restRender>>

\* lines 432-434
RenderOverview ==
    /\ pc = "render_overview"
    /\ rendered' = rendered \cup {"OVERVIEW.md"}
    /\ pc' = "render_features"
    /\ UNCHANGED <<warned, mainVars, settingsVars, restRender>>

\* lines 439-451 and the return
RenderFeatures ==
    /\ pc = "render_features"
    /\ LET r == get_setting(settings_files, cache, "feature_tracking", "no")
           listed == IF "feature_clusters" \in DOMAIN report
                     THEN report.feature_clusters ELSE <<>>
           found == IF "features" \in DOMAIN report THEN report.features ELSE <<>>
       IN  /\ feature_tracking' = (r.val = "yes")
           /\ cache' = r.cache
           /\ results' = Append(results, r.val)
           /\ rendered' = rendered
                 \cup (IF r.val = "yes" THEN {"FEATURES.md"} ELSE {})
                 \cup (IF r.val = "yes" /\ (listed # <<>> \/ found # <<>>)
                       THEN {"acceptance"} ELSE {})
    /\ read_at' = Append(read_at, settings_files)
    /\ exit_code' = 0
    /\ pc' = "exited"
    /\ UNCHANGED <<args, repo, report, output_file, settings_files, warned,
                   restRender>>

NextRender ==
    \/ LoadReport \/ VersionCheck \/ RenderStack \/ RenderContextPack
    \/ RenderOverview \/ RenderFeatures

SpecRender == InitRender /\ [][NextRender]_vars

-----------------------------------------------------------------------------
(* Claims about the renderer's version check *)

\* the report file is what generate_report returns for the repository
FreshReport ==
    /\ output_file.written
    /\ \E ft \in BOOLEAN, first \in FirstLanguages(repo) :
          output_file.content = generate_report(repo, args.profile, ft, first)

VersionChecked == pc \notin {"load_report", "version_check"} /\ report # <<>>

\* C20: once the version has been checked, the warning has been given
\* exactly when the report's version differs from the pinned one; a report
\* that has been loaded is rendered to STACK.md, CONTEXT_PACK.md and
\* OVERVIEW.md with exit code 0 whether or not the warning was given; and a
\* report generate_report has just produced never gets the warning.
C20_VersionCheck ==
    /\ VersionChecked => (warned <=> report_version(report) # ExpectedVersion)
    /\ ~VersionChecked => ~warned
    /\ (pc = "exited" /\ report # <<>>) =>
          CoreProposals \subseteq rendered /\ exit_code = 0
    /\ exit_code = 1 => ~output_file.written
    /\ FreshReport => ~warned

\* a report of an older version has been rendered after the warning
C20_Witness ==
    /\ pc = "exited" /\ warned /\ exit_code = 0
    /\ "version" \in DOMAIN report /\ report.version = OlderVersion
    /\ CoreProposals \subseteq rendered

\* a freshly generated report with feature keys has been rendered
C20_WitnessFresh ==
    /\ pc = "exited" /\ FreshReport /\ ~warned
    /\ "feature_clusters" \in DOMAIN report /\ CoreProposals \subseteq rendered

-----------------------------------------------------------------------------
(* Further properties of detect_domains *)

InfrastructureDomains == {k \in 1..Len(domains) : domains[k].type = "infrastructure"}

InfraStepDone == pc \notin {"sub_projects", "infrastructure"}

\* C21: once step 2 has run, a domain of type infrastructure exists if and
\* only if at least 3 infra patterns were detected or one of them is of type
\* iac; there is at most one, its infra_paths are the paths of all patterns
\* in order, and its clusters list is empty, when created and afterwards.
C21_InfrastructureDomain ==
    /\ ~InfraStepDone => InfrastructureDomains = {}
    /\ InfraStepDone =>
          /\ InfrastructureDomains # {} <=>
                \/ Len(infra_patterns) >= 3
                \/ \E i \in 1..Len(infra_patterns) : infra_patterns[i].type = "iac"
          /\ Cardinality(InfrastructureDomains) <= 1
    /\ \A k \in InfrastructureDomains :
          /\ domains[k].infra_paths =
                [i \in 1..Len(infra_patterns) |-> infra_patterns[i].path]
          /\ domains[k].clusters = <<>>
          /\ domains[k].name = "infrastructure"

\* three patterns, none of them iac, gave an infrastructure domain in a
\* repository that also has clusters
C21_Witness ==
    /\ pc = "returned"
    /\ Len(infra_patterns) = 3
    /\ \A i \in 1..Len(infra_patterns) : infra_patterns[i].type # "iac"
    /\ InfrastructureDomains # {}
    /\ feature_clusters # <<>>

\* a single pattern, of type iac, gave an infrastructure domain
C21_WitnessIac ==
    /\ pc = "returned"
    /\ Len(infra_patterns) = 1 /\ infra_patterns[1].type = "iac"
    /\ InfrastructureDomains # {}

OrphanStepDone == pc \in {"uncategorized", "single_project", "returned"}

DomainsOfType(t) == {k \in 1..Len(domains) : domains[k].type = t}

\* the type of domain the tiers of the cluster select, or None
SelectedType(c) ==
    IF c.frontend # <<>> /\ DomainsOfType("frontend") # {} THEN "frontend"
    ELSE IF c.backend # <<>> /\ DomainsOfType("backend") # {} THEN "backend"
    ELSE IF c.mobile # <<>> /\ DomainsOfType("mobile") # {} THEN "mobile"
    ELSE None

\* C26: once step 3 has run, a cluster with no member path below any
\* sub-project is listed in exactly one domain, the first of type frontend
\* if it has frontend paths and such a domain exists, otherwise the first of
\* type backend if it has backend paths, otherwise the first of type mobile
\* if it has mobile paths; when none of these exists, step 3 lists it in no
\* domain.
C26_OrphanByTier ==
    OrphanStepDone =>
        \A i \in 1..Len(feature_clusters) :
            LET c == feature_clusters[i]
            IN  HostSubProjects(c) = {} =>
                    /\ SelectedType(c) # None =>
                          ListingDomains(c.name) = {Least(DomainsOfType(SelectedType(c)))}
                    /\ (SelectedType(c) = None /\ pc = "uncategorized") =>
                          ListingDomains(c.name) = {}

\* a cluster with frontend and backend paths, below no sub-project, went to
\* the frontend domain although a backend domain comes first in the list
C26_Witness ==
    /\ pc = "returned"
    /\ \E i \in 1..Len(feature_clusters) :
          LET c == feature_clusters[i]
          IN  /\ HostSubProjects(c) = {}
              /\ c.frontend # <<>> /\ c.backend # <<>>
              /\ DomainsOfType("backend") # {} /\ DomainsOfType("frontend") # {}
              /\ Least(DomainsOfType("backend")) < Least(DomainsOfType("frontend"))
              /\ ListingDomains(c.name) = {Least(DomainsOfType("frontend"))}

\* C30: detect_domains returns at least one domain, whatever the
\* sub-projects, clusters and infra patterns, and at every step each name in
\* a domain's clusters list is the name of a cluster of feature_clusters.
C30_NeverEmpty ==
    /\ pc = "returned" => Len(domains) >= 1
    /\ \A k \in 1..Len(domains) :
          Range(domains[k].clusters) \subseteq Range(AllClusterNames)

\* the call returned for a root without sub-projects, clusters and patterns
C30_Witness ==
    /\ pc = "returned"
    /\ sub_projects = <<>> /\ feature_clusters = <<>> /\ infra_patterns = <<>>
    /\ Len(domains) = 1

\* the call returned domains that list clusters
C30_WitnessListed ==
    /\ pc = "returned"
    /\ \E k \in 1..Len(domains) : Len(domains[k].clusters) >= 2

-----------------------------------------------------------------------------
(* Claims about the resolution order of get_setting *)

\* the lines of the first "## Settings" section of the file: those after
\* the first such heading and before the next heading
SectionLines(file) ==
    LET heads == {i \in 1..Len(file.lines) : file.lines[i] = Heading("Settings")}
        start == CHOOSE i \in heads : \A j \in heads : i <= j
    IN  IF heads = {} THEN {}
        ELSE {i \in (start + 1)..Len(file.lines) :
                \A j \in (start + 1)..i : file.lines[j].kind # "heading"}

\* the bullets of the section that carry the key
Explicit(file, key) ==
    {i \in SectionLines(file) : file.lines[i].kind = "bullet" /\ file.lines[i].key = key}

\* the section yields no entry at all
NoSectionEntries(file) ==
    \A i \in SectionLines(file) : file.lines[i].kind # "bullet"

\* the lines anywhere in the file that carry the key, with or without dash,
\* in any case
Anywhere(file, key) ==
    {i \in 1..Len(file.lines) :
        /\ file.lines[i].kind \in {"bullet", "plain"}
        /\ Lower(file.lines[i].key) = Lower(key)}

Last(S) == CHOOSE i \in S : \A j \in S : j <= i

\* the profile the presets are looked up under
ResolvedProfile(files) ==
    LET f == files.stack_md
        named == IF Explicit(f, "profile") # {}
                 THEN Lower(f.lines[Last(Explicit(f, "profile"))].value) ELSE ""
        found == IF Anywhere(f, "Profile") # {}
                 THEN Lower(f.lines[Least(Anywhere(f, "Profile"))].value) ELSE ""
    IN  IF named \in ProfileNames THEN named
        ELSE IF found \in ProfileNames THEN found
        ELSE IF files.spec_dir THEN "formal" ELSE "discovery"

PresetDefined(files, key) ==
    /\ ResolvedProfile(files) \in DOMAIN files.conf.presets
    /\ key \in DOMAIN files.conf.presets[ResolvedProfile(files)]

FirstCallDone == Len(results) >= 1

C22_WitnessExplicit ==
    /\ FirstCallDone
    /\ LET files == read_at[1]
           f == files.stack_md
       IN  /\ Explicit(f, "feature_tracking") # {}
           /\ PresetDefined(files, "feature_tracking")
           /\ results[1] # files.conf.presets[ResolvedProfile(files)]["feature_tracking"]

\* the section has entries, none for the key and no profile of a known name,
\* and the profile came from a Profile line outside the section although
\* spec/ exists
C22_WitnessProfileLine ==
    /\ FirstCallDone
    /\ LET files == read_at[1]
           f == files.stack_md
       IN  /\ ~NoSectionEntries(f) /\ Explicit(f, "feature_tracking") = {}
           /\ Explicit(f, "profile") # {}
           /\ Lower(f.lines[Last(Explicit(f, "profile"))].value) \notin ProfileNames
           /\ files.spec_dir /\ ResolvedProfile(files) = "discovery"
           /\ PresetDefined(files, "feature_tracking")

-----------------------------------------------------------------------------
(* Further properties of cluster_features *)

\* the items processed so far whose path an entry lists
Members(e) == {i \in 1..pos : items[i].path \in PathsOf(e)}

IsPrefix(p, s) == Len(p) <= Len(s) /\ SubSeq(s, 1, Len(p)) = p

\* key is the longest string every name of the items in S starts with
IsLongestCommonPrefix(key, S) ==
    /\ \A i \in S : IsPrefix(key, items[i].norm)
    /\ \/ \E i \in S : Len(items[i].norm) = Len(key)
       \/ \E i, j \in S : items[i].norm[Len(key) + 1] # items[j].norm[Len(key) + 1]

\* a step of the loop, seen from a cluster that exists before and after it
\* (the same cluster: one that lists a path of the earlier one)
KeyShortens ==
    \A k \in 1..Len(clusters_map) : \A l \in 1..Len(clusters_map') :
        PathsOf(clusters_map[k]) \cap PathsOf(clusters_map'[l]) # {} =>
            /\ PathsOf(clusters_map[k]) \subseteq PathsOf(clusters_map'[l])
            /\ \A t \in {"frontend", "backend", "mobile"} :
                  IsPrefix(clusters_map[k][t], clusters_map'[l][t])
            /\ \/ clusters_map'[l].key = clusters_map[k].key
               \/ /\ IsPrefix(clusters_map'[l].key, clusters_map[k].key)
                  /\ Len(clusters_map'[l].key) < Len(clusters_map[k].key)
                  /\ Len(clusters_map'[l].key) >= 4

KeysAreCommonPrefixes ==
    \A k \in 1..Len(clusters_map) :
        /\ Members(clusters_map[k]) # {}
        /\ IsLongestCommonPrefix(clusters_map[k].key, Members(clusters_map[k]))

\* C24: in every step of the loop a cluster's key stays or becomes a proper
\* prefix, of at least 4 characters, of its previous key; the cluster keeps
\* the members it had, in order; and after every step each key is the longest
\* common prefix of the normalized names of the cluster's members.
C24_KeysGeneralize == []KeysAreCommonPrefixes /\ [][KeyShortens]_vars

\* a cluster of three members, each with a name longer than the key: the
\* key of the first member was shortened when the second joined
C24_Witness ==
    /\ pc = "clustered"
    /\ \E k \in 1..Len(clusters_map) :
          /\ Cardinality(Members(clusters_map[k])) >= 3
          /\ \A i \in Members(clusters_map[k]) :
                Len(items[i].norm) > Len(clusters_map[k].key)

NonDefault(e) == {i \in Members(e) : items[i].type_hint # "user-facing"}

HintFollowsMembers(e) ==
    /\ e.type_hint = "user-facing" <=> NonDefault(e) = {}
    /\ NonDefault(e) # {} =>
          e.type_hint = items[CHOOSE i \in NonDefault(e) :
                                 \A j \in NonDefault(e) : j <= i].type_hint

\* C25: the type hint of a cluster, in clusters_map after every step and in
\* the returned list, is user-facing if and only if every member's hint is
\* user-facing, and otherwise the hint of the last member, in processing
\* order, whose hint is not user-facing.
C25_TypeHint ==
    /\ \A k \in 1..Len(clusters_map) : HintFollowsMembers(clusters_map[k])
    /\ \A k \in 1..Len(clusters) :
          pc = "clustered" => HintFollowsMembers(clusters[k])

\* a cluster seeded by a user-facing component took the hint of a function
\* that joined it, and another cluster stayed user-facing with two members
C25_Witness ==
    /\ pc = "clustered"
    /\ \E k \in 1..Len(clusters) :
          /\ clusters[k].type_hint = "admin"
          /\ clusters[k].frontend # <<>> /\ clusters[k].backend # <<>>
    /\ \E k \in 1..Len(clusters) :
          /\ clusters[k].type_hint = "user-facing"
          /\ Cardinality(Members(clusters[k])) >= 2

\* the keys of clusters_map a candidate name shares at least 4 leading
\* characters with
QualifyingKeys(norm) ==
    {k \in 1..Len(clusters_map) : common_prefix_len(norm, clusters_map[k].key) >= 4}

KeysApart ==
    /\ \A k, l \in 1..Len(clusters_map) :
          k # l => common_prefix_len(clusters_map[k].key, clusters_map[l].key) < 4
    /\ pos < Len(items) => Cardinality(QualifyingKeys(items[pos + 1].norm)) <= 1

\* a step in which a key qualified leaves the number of clusters as it was
\* and every path where it was listed
NothingOverwritten ==
    (pc = "loop" /\ pos < Len(items) /\ QualifyingKeys(items[pos + 1].norm) # {}) =>
        /\ Len(clusters_map') = Len(clusters_map)
        /\ \A k \in 1..Len(clusters_map) : \E l \in 1..Len(clusters_map') :
              PathsOf(clusters_map[k]) \subseteq PathsOf(clusters_map'[l])

\* C27: after every step any two entries of clusters_map have keys that
\* share fewer than 4 leading characters, so at most one key qualifies for
\* the next candidate, and a step that joins the candidate to a cluster,
\* re-keyed or not, discards no other cluster.
C27_KeysApart == []KeysApart /\ [][NothingOverwritten]_vars

\* three clusters exist and one of them was re-keyed for its second member
C27_Witness ==
    /\ pc = "loop" /\ Len(clusters_map) >= 3
    /\ \E k \in 1..Len(clusters_map) :
          /\ Cardinality(Members(clusters_map[k])) >= 2
          /\ \A i \in Members(clusters_map[k]) :
                Len(items[i].norm) > Len(clusters_map[k].key)

\* the clusters and tier lists that list the path
Listings(path) ==
    {<<k, t>> \in (1..Len(clusters)) \X {"frontend", "backend", "mobile"} :
        \E n \in 1..Len(clusters[k][t]) : clusters[k][t][n] = path}

RECURSIVE SumLen(_)
SumLen(cs) ==
    IF cs = <<>> THEN 0
    ELSE Len(Head(cs).frontend) + Len(Head(cs).backend) + Len(Head(cs).mobile)
         + SumLen(Tail(cs))

\* C28: every candidate (UI component, or function whose name does not start
\* with an underscore) has its path listed exactly once, in the tier list of
\* its tier, of exactly one returned cluster, and the number of listed paths
\* is the number of candidates.
C28_NoCandidateLost ==
    pc = "clustered" =>
        LET candidates == CollectedItems(ui_components, serverless_functions)
        IN  /\ \A i \in 1..Len(candidates) :
                  /\ Cardinality(Listings(candidates[i].path)) = 1
                  /\ \E k \in 1..Len(clusters) :
                        <<k, candidates[i].tier>> \in Listings(candidates[i].path)
            /\ SumLen(clusters) = Len(candidates)

\* two candidates have the same normalized name of fewer than 4 characters
ShortTwins ==
    \E i, j \in 1..Len(items) :
        i # j /\ items[i].norm = items[j].norm /\ Len(items[i].norm) < 4

\* without such candidates nothing is lost
NoCandidateLostWithoutTwins == ~ShortTwins => C28_NoCandidateLost

-----------------------------------------------------------------------------
(* discover_features *)

\* small listings hold at most this many entries per directory
MaxCandidates == 1

\* A file name is a list of pieces: a run of letters, a digit, or one other
\* character.  The text of a run of letters is kept in lower case and the
\* style says how the name on disk cases it.
Letters(text) == [text |-> text, style |-> "lower"]
Capitalized(text) == [text |-> text, style |-> "title"]
Digit(d) == [text |-> d, style |-> "digit"]
Sep(c) == [text |-> c, style |-> "sep"]
IsLetters(piece) == piece.style \in {"lower", "title"}

\* str.lower()
lower(nm) ==
    [i \in DOMAIN nm |->
        IF IsLetters(nm[i]) THEN [nm[i] EXCEPT !.style = "lower"] ELSE nm[i]]

\* str.title(): every run of letters starts with a capital and goes on in
\* lower case
title(nm) ==
    [i \in DOMAIN nm |->
        IF IsLetters(nm[i]) THEN [nm[i] EXCEPT !.style = "title"] ELSE nm[i]]

\* str.replace(old, new) for one-character strings
replace(nm, old, new) ==
    [i \in DOMAIN nm |->
        IF nm[i] = Sep(old) THEN Sep(new) ELSE nm[i]]

\* str.startswith(prefixes) for one-character prefixes
startswith(nm, prefixes) ==
    nm # <<>> /\ nm[1].style = "sep" /\ nm[1].text \in prefixes

\* name.replace("-", " ").replace("_", " ").title()
FeatureTitle(nm) == title(replace(replace(nm, "-", " "), "_", " "))

NON_FEATURE_DIRS ==
    {<<Letters(w)>> : w \in
        {"utils", "util", "lib", "libs", "helpers", "helper",
         "common", "shared", "config", "configs", "configuration",
         "scripts", "script", "tools", "tool", "build", "dist",
         "assets", "static", "public", "resources", "res",
         "fixtures", "mocks", "stubs", "testdata",
         "types", "interfaces", "models", "schemas", "migrations",
         "docs", "doc", "documentation", "examples", "example",
         "vendor", "external", "generated", "gen",
         "internal", "pkg", "cmd"}}
    \cup {<<Letters("node"), Sep("_"), Letters("modules")>>,
          <<Sep("_"), Sep("_"), Letters("pycache"), Sep("_"), Sep("_")>>,
          <<Sep("."), Letters("git")>>,
          <<Sep("."), Letters("agentic")>>,
          <<Letters("test"), Sep("_"), Letters("data")>>,
          <<Letters("third"), Sep("_"), Letters("party")>>}

\* the names the route scan passes over, and the suffixes of route files
ReservedRoutes == {<<Letters("api")>>, <<Letters("layout")>>, <<Letters("error")>>}
RouteSuffixes == {".tsx", ".jsx", ".ts", ".js", ".vue", ".svelte"}

\* a directory entry: stem and suffix of its name, whether it is a directory,
\* and the source files an rglob finds below it
DirEntry(stem, file_count) ==
    [stem |-> stem, suffix |-> "", is_dir |-> TRUE, file_count |-> file_count]
FileEntry(stem, suffix) ==
    [stem |-> stem, suffix |-> suffix, is_dir |-> FALSE, file_count |-> 0]
\* child.name
ChildName(child) ==
    IF child.suffix = "" THEN child.stem ELSE Append(child.stem, Sep(child.suffix))

MyDashTool == <<Letters("my"), Sep("-"), Letters("tool")>>
MyUnderTool == <<Letters("my"), Sep("_"), Letters("tool")>>

\* the listings are sorted as sorted(iterdir()) sorts them
PackagePool == <<DirEntry(MyDashTool, 1), DirEntry(MyUnderTool, 1), DirEntry(<<Letters("web")>>, 1)>>
CmdPool ==
    <<DirEntry(<<Sep("."), Letters("cache")>>, 0),
      FileEntry(<<Capitalized("makefile")>>, ""),
      DirEntry(MyDashTool, 1)>>
RoutePool ==
    <<FileEntry(<<Capitalized("auth")>>, ".tsx"),
      FileEntry(<<Sep("_"), Letters("app")>>, ".tsx"),
      DirEntry(<<Letters("api")>>, 1),
      DirEntry(MyDashTool, 1),
      DirEntry(MyUnderTool, 1),
      FileEntry(<<Letters("readme")>>, ".md"),
      DirEntry(<<Letters("utils")>>, 1)>>
ModulePool ==
    <<DirEntry(<<Capitalized("auth")>>, 2),
      DirEntry(<<Sep("_"), Letters("generated")>>, 1),
      DirEntry(MyDashTool, 1),
      DirEntry(MyUnderTool, 0),
      DirEntry(<<Letters("utils")>>, 3),
      DirEntry(<<Letters("web")>>, 1)>>

\* n numbered directories, each with one source file: w01, w02, ...
Numbered(letter, n) ==
    [i \in 1..n |->
        DirEntry(<<Letters(letter), Digit(DigitChars[(i \div 10) + 1]),
              Digit(DigitChars[(i % 10) + 1])>>, 1)]

\* how many numbered directories follow the small listing of each step:
\* enough to reach MAX_FEATURES inside each of the four steps
Over == MAX_FEATURES + 1
Part == (MAX_FEATURES \div 2) + 5
BulkShapes ==
    {<<Over, 0, 0, 0>>, <<0, Over, 0, 0>>, <<0, 0, Over, 0>>, <<0, 0, 0, Over>>,
     <<Part, Part, 0, 0>>, <<0, Part, Part, 0>>, <<0, 0, Part, Part>>,
     <<Part, 0, 0, Part>>, <<Part, 0, Part, 0>>}

\* what discover_features finds: architecture["is_monorepo"] and
\* architecture["monorepo_packages"], the children of cmd/, of the route
\* directory and of the source directory
Layout(mono, packages, cmds, routes, modules) ==
    [is_monorepo |-> mono, monorepo_packages |-> packages,
     cmd |-> cmds, routes |-> routes, modules |-> modules]

\* add_feature, as a pair of the list and the set after the call
add_feature(fs, seen, nm, confidence, evidence) ==
    IF lower(nm) \in seen \/ Len(fs) >= MAX_FEATURES
    THEN [features |-> fs, seen_names |-> seen]
    ELSE [features |-> Append(fs, [name |-> nm, confidence |-> confidence,
                                   evidence |-> evidence]),
          seen_names |-> seen \cup {lower(nm)}]

InitFeatures ==
    /\ pc = "packages"
    /\ \/ \E mono \in BOOLEAN,
             packages \in SubLists(PackagePool, MaxCandidates),
             cmds \in SubLists(CmdPool, MaxCandidates),
             routes \in SubLists(RoutePool, MaxCandidates),
             modules \in SubLists(ModulePool, MaxCandidates) :
           /\ ~mono => packages = <<>>
           /\ layout = Layout(mono, packages, cmds, routes, modules)
       \/ \E shape \in BulkShapes, first \in SubLists(RoutePool, 1) :
           layout = Layout(TRUE, Numbered("w", shape[1]), Numbered("x", shape[2]),
                           first \o Numbered("y", shape[3]),
                           Numbered("z", shape[4]))
    /\ feat_pos = 0 /\ features = <<>> /\ seen_names = {}
    /\ IdleNorm /\ IdleCluster /\ IdleDomains /\ IdleButFeatures

\* one pass of the loop over architecture["monorepo_packages"]
MonorepoPackage ==
    /\ pc = "packages" /\ layout.is_monorepo
    /\ feat_pos < Len(layout.monorepo_packages)
    /\ LET pkg == layout.monorepo_packages[feat_pos + 1]
           after == add_feature(features, seen_names, FeatureTitle(ChildName(pkg)),
                                "medium", ChildName(pkg))
       IN  /\ features' = after.features
           /\ seen_names' = after.seen_names
    /\ feat_pos' = feat_pos + 1
    /\ UNCHANGED <<pc, layout, restFeatures>>

PackagesDone ==
    /\ pc = "packages"
    /\ ~layout.is_monorepo \/ feat_pos = Len(layout.monorepo_packages)
    /\ pc' = "cmd" /\ feat_pos' = 0
    /\ UNCHANGED <<layout, features, seen_names, restFeatures>>

\* one pass of the loop over sorted(cmd_dir.iterdir())
CmdChild ==
    /\ pc = "cmd" /\ feat_pos < Len(layout.cmd)
    /\ LET child == layout.cmd[feat_pos + 1]
           after ==
               IF child.is_dir /\ ~startswith(ChildName(child), {"."})
               THEN add_feature(features, seen_names,
                                FeatureTitle(ChildName(child)), "high",
                                ChildName(child))
               ELSE [features |-> features, seen_names |-> seen_names]
       IN  /\ features' = after.features
           /\ seen_names' = after.seen_names
    /\ feat_pos' = feat_pos + 1
    /\ UNCHANGED <<pc, layout, restFeatures>>

CmdDone ==
    /\ pc = "cmd" /\ feat_pos = Len(layout.cmd)
    /\ pc' = "routes" /\ feat_pos' = 0
    /\ UNCHANGED <<layout, features, seen_names, restFeatures>>

\* the route scan takes the child: it is no passed-over name, and it is a
\* directory or a route file
RouteTaken(child) ==
    /\ ~startswith(ChildName(child), {"_", ".", "["})
    /\ ChildName(child) \notin ReservedRoutes
    /\ child.is_dir \/ child.suffix \in RouteSuffixes

\* name = child.stem if child.is_file() else child.name
RouteName(child) == IF child.is_dir THEN ChildName(child) ELSE child.stem

\* one pass of the loop of _discover_route_features
RouteChild ==
    /\ pc = "routes" /\ feat_pos < Len(layout.routes)
    /\ LET child == layout.routes[feat_pos + 1]
           nm == RouteName(child)
       IN  IF ~RouteTaken(child)
              \/ lower(nm) \in NON_FEATURE_DIRS \/ lower(nm) \in seen_names
           THEN /\ feat_pos' = feat_pos + 1
                /\ UNCHANGED <<pc, features, seen_names>>
           ELSE IF Len(features) >= MAX_FEATURES
           THEN /\ pc' = "modules" /\ feat_pos' = 0
                /\ UNCHANGED <<features, seen_names>>
           ELSE /\ seen_names' = seen_names \cup {lower(nm)}
                /\ features' = Append(features,
                                      [name |-> FeatureTitle(nm),
                                       confidence |-> "medium",
                                       evidence |-> ChildName(child)])
                /\ feat_pos' = feat_pos + 1
                /\ UNCHANGED pc
    /\ UNCHANGED <<layout, restFeatures>>

RoutesDone ==
    /\ pc = "routes" /\ feat_pos = Len(layout.routes)
    /\ pc' = "modules" /\ feat_pos' = 0
    /\ UNCHANGED <<layout, features, seen_names, restFeatures>>

\* features[:MAX_FEATURES]
Sliced(fs) == SubSeq(fs, 1, IF Len(fs) < MAX_FEATURES THEN Len(fs) ELSE MAX_FEATURES)

\* one pass of the loop of _discover_module_features; at the limit the
\* function returns and discover_features returns the slice
ModuleChild ==
    /\ pc = "modules" /\ feat_pos < Len(layout.modules)
    /\ LET child == layout.modules[feat_pos + 1]
           nm == ChildName(child)
       IN  IF ~child.is_dir \/ startswith(nm, {"_", "."})
              \/ lower(nm) \in NON_FEATURE_DIRS \/ lower(nm) \in seen_names
           THEN /\ feat_pos' = feat_pos + 1
                /\ UNCHANGED <<pc, features, seen_names>>
           ELSE IF Len(features) >= MAX_FEATURES
           THEN /\ pc' = "features_returned"
                /\ features' = Sliced(features)
                /\ UNCHANGED <<feat_pos, seen_names>>
           ELSE IF child.file_count < 1
           THEN /\ feat_pos' = feat_pos + 1
                /\ UNCHANGED <<pc, features, seen_names>>
           ELSE /\ seen_names' = seen_names \cup {lower(nm)}
                /\ features' = Append(features,
                                      [name |-> FeatureTitle(nm),
                                       confidence |-> "low",
                                       evidence |-> nm])
                /\ feat_pos' = feat_pos + 1
                /\ UNCHANGED pc
    /\ UNCHANGED <<layout, restFeatures>>

\* the loop is over: return features[:MAX_FEATURES]
ReturnFeatures ==
    /\ pc = "modules" /\ feat_pos = Len(layout.modules)
    /\ pc' = "features_returned"
    /\ features' = Sliced(features)
    /\ UNCHANGED <<layout, feat_pos, seen_names, restFeatures>>

NextFeatures ==
    \/ MonorepoPackage \/ PackagesDone
    \/ CmdChild \/ CmdDone
    \/ RouteChild \/ RoutesDone
    \/ ModuleChild \/ ReturnFeatures

SpecFeatures == InitFeatures /\ [][NextFeatures]_vars

-----------------------------------------------------------------------------
(* Claims about the size and the names of the detector outputs *)

\* the features list never holds more than MAX_FEATURES entries
FeaturesBounded == Len(features) <= MAX_FEATURES

\* the limit is reached and a further candidate is turned away
LimitReached ==
    /\ Len(features) = MAX_FEATURES
    /\ pc \in {"modules", "features_returned"}

TwinsHaveSeparators ==
    pc = "features_returned" =>
        \A i, j \in 1..Len(features) :
            (i # j /\ features[i].name = features[j].name) =>
                \E n \in 1..Len(features[i].evidence) :
                    features[i].evidence[n] \in {Sep("-"), Sep("_")}

\* C23: the size of every detector output is bounded by the hard limit: at
\* every step of a detector the features list, the serverless functions list
\* and the feature clusters list hold at most MAX_FEATURES entries.
C23_OutputsBounded ==
    /\ Len(features) <= MAX_FEATURES
    /\ Len(functions) <= MAX_FEATURES
    /\ Len(clusters) <= MAX_FEATURES

\* the serverless scan adds one entry for every valid descriptor it reads
OneEntryPerDescriptor ==
    pc = "functions_returned" =>
        Len(functions) >= Cardinality({i \in 1..Len(descriptors) :
                                          /\ descriptors[i].valid
                                          /\ ~should_exclude(Append(descriptors[i].dir,
                                                                    "function.json"))})

=============================================================================
